---- MODULE Spec2Model ----
(***************************************************************************)
(* ExSeOS-H: the wiring-resolution subsystem (exseos/workflow/wiring),     *)
(* the Result merge algebra (exseos/types/Result.py) and the Workflow      *)
(* execution loop (exseos/workflow/Workflow.py).                           *)
(*                                                                         *)
(* Python values are modelled as tagged records (field t), Option as a     *)
(* sequence of length 0 (Nothing) or 1 (Some), a Result as a record with   *)
(* field tag, and a call that raises as a record with tag "Raise".         *)
(***************************************************************************)
EXTENDS Integers, Sequences, FiniteSets, TLC

(***************************************************************************)
(* Bounds of the model.                                                    *)
(***************************************************************************)
MaxStages == 2

(***************************************************************************)
(* exseos/types/Option.py                                                  *)
(***************************************************************************)
Nothing == <<>>

Some(x) == <<x>>

has_val(o) == Len(o) > 0

(***************************************************************************)
(* Python's None, list, str and int values.                                *)
(***************************************************************************)
PyNone == [t |-> "None"]

PyList(s) == [t |-> "list", v |-> s]

PyStr(s) == [t |-> "str", v |-> s]

PyInt(n) == [t |-> "int", v |-> n]

PyBool(b) == [t |-> "bool", v |-> b]

PyTuple(s) == [t |-> "tuple", v |-> s]

\* == between two tagged Python values: values of different types differ
PyEq(a, b) == a.t = b.t /\ a.v = b.v

(***************************************************************************)
(* Exceptions and warnings carried in Results: the class and its argument. *)
(***************************************************************************)
Exc(cls, info) == [cls |-> cls, info |-> info]

(***************************************************************************)
(* exseos/types/Result.py                                                  *)
(***************************************************************************)
NoVal == [t |-> "NoVal"]

Okay(val) == [tag |-> "Okay", val |-> val, warnings |-> <<>>, errors |-> <<>>]

Warn(warnings, val) ==
    [tag |-> "Warn", val |-> val, warnings |-> warnings, errors |-> <<>>]

Fail(errors, warnings) ==
    [tag |-> "Fail", val |-> NoVal, warnings |-> warnings, errors |-> errors]

Raise(exc) == [tag |-> "Raise", exc |-> exc]

is_okay(r) == r.tag = "Okay"

is_warn(r) == r.tag = "Warn"

is_fail(r) == r.tag = "Fail"

is_raise(r) == r.tag = "Raise"

KEEP_FIRST(a, b) == a

KEEP_LAST(a, b) == b

\* a[:] succeeds on a list and raises on None or on an object without
\* __getitem__, in which case [a, b] is built
APPEND(a, b) ==
    IF a.t = "list" THEN PyList(Append(a.v, b)) ELSE PyList(<<a, b>>)

MergeStrategy(fn, a, b) ==
    CASE fn = "KEEP_FIRST" -> KEEP_FIRST(a, b)
      [] fn = "KEEP_LAST" -> KEEP_LAST(a, b)
      [] fn = "APPEND" -> APPEND(a, b)

\* as merge, but a Fail absorbs a Warn: the result is Warn unless both fail
merge_fail_absorbed(a, b, fn) ==
    IF is_fail(a) /\ ~is_fail(b) THEN b
    ELSE IF is_fail(b) /\ ~is_fail(a) THEN a
    ELSE IF is_okay(a) /\ is_okay(b)
    THEN Okay(MergeStrategy(fn, a.val, b.val))
    ELSE IF ~is_fail(a) /\ ~is_fail(b)
    THEN Warn(a.warnings \o b.warnings, MergeStrategy(fn, a.val, b.val))
    ELSE Fail(a.errors \o b.errors, a.warnings \o b.warnings)

\* as merge, but an Okay on the right discards the warnings gathered so far
merge_okay_resets(a, b, fn) ==
    IF ~is_fail(a) /\ is_okay(b)
    THEN Okay(MergeStrategy(fn, a.val, b.val))
    ELSE IF ~is_fail(a) /\ ~is_fail(b)
    THEN Warn((IF ~is_okay(a) THEN a.warnings ELSE <<>>)
                \o (IF ~is_okay(b) THEN b.warnings ELSE <<>>),
              MergeStrategy(fn, a.val, b.val))
    ELSE Fail((IF is_fail(a) THEN a.errors ELSE <<>>)
                \o (IF is_fail(b) THEN b.errors ELSE <<>>),
              (IF ~is_okay(a) THEN a.warnings ELSE <<>>)
                \o (IF ~is_okay(b) THEN b.warnings ELSE <<>>))

\* as merge, but b's diagnostics come before a's
merge_swapped(a, b, fn) ==
    IF is_okay(a) /\ is_okay(b)
    THEN Okay(MergeStrategy(fn, a.val, b.val))
    ELSE IF ~is_fail(a) /\ ~is_fail(b)
    THEN Warn((IF ~is_okay(b) THEN b.warnings ELSE <<>>)
                \o (IF ~is_okay(a) THEN a.warnings ELSE <<>>),
              MergeStrategy(fn, a.val, b.val))
    ELSE Fail((IF is_fail(b) THEN b.errors ELSE <<>>)
                \o (IF is_fail(a) THEN a.errors ELSE <<>>),
              (IF ~is_okay(b) THEN b.warnings ELSE <<>>)
                \o (IF ~is_okay(a) THEN a.warnings ELSE <<>>))

merge(a, b, fn) ==
    IF is_okay(a) /\ is_okay(b)
    THEN Okay(MergeStrategy(fn, a.val, b.val))
    ELSE IF ~is_fail(a) /\ ~is_fail(b)
    THEN Warn((IF ~is_okay(a) THEN a.warnings ELSE <<>>)
                \o (IF ~is_okay(b) THEN b.warnings ELSE <<>>),
              MergeStrategy(fn, a.val, b.val))
    ELSE Fail((IF is_fail(a) THEN a.errors ELSE <<>>)
                \o (IF is_fail(b) THEN b.errors ELSE <<>>),
              (IF ~is_okay(a) THEN a.warnings ELSE <<>>)
                \o (IF ~is_okay(b) THEN b.warnings ELSE <<>>))

RECURSIVE merge_fold(_, _, _)
merge_fold(res, args, fn) ==
    IF args = <<>> THEN res
    ELSE merge_fold(merge(res, Head(args), fn), Tail(args), fn)

\* merge_all(args..., fn, empty) with an empty that is not callable
merge_all(args, fn, empty) ==
    IF Len(args) = 0 THEN Okay(empty)
    ELSE merge_fold(merge(Okay(empty), Head(args), fn), Tail(args), fn)

rshift(a, b) == merge(a, b, "KEEP_LAST")

lshift(a, b) == merge(a, b, "KEEP_FIRST")

\* a function passed to flat_map: it returns a Result of f.tag with f's
\* warnings and errors, holding (when not Fail) a value made from its argument
Apply(f, x) ==
    CASE f.tag = "Okay" -> Okay(PyTuple(<<PyStr("my"), x>>))
      [] f.tag = "Warn" -> Warn(f.warnings, PyTuple(<<PyStr("my"), x>>))
      [] f.tag = "Fail" -> Fail(f.errors, f.warnings)

\* as flat_map, but f is applied to a Fail as well
flat_map_always(r, f) == rshift(r, Apply(f, r.val))

\* Okay.flat_map, Warn.flat_map: self >> f(val); Fail.flat_map: a Fail of
\* self's errors and warnings
flat_map(r, f) ==
    IF is_fail(r) THEN Fail(r.errors, r.warnings) ELSE rshift(r, Apply(f, r.val))

(***************************************************************************)
(* exseos/types/util.py                                                    *)
(***************************************************************************)
\* type(val) of a Python value
TypeOf(val) == val.t

\* the builtin issubclass(t2, t1) among object, int, bool and str
issubclass(t2, t1) == t2 = t1 \/ t1 = "object" \/ (t2 = "bool" /\ t1 = "int")

\* common_t(a, b): none of int, bool and str has a base below object that
\* another one shares, so the candidate search finds nothing
common_t(a, b) ==
    IF issubclass(b, a) THEN Okay(a)
    ELSE IF issubclass(a, b) THEN Okay(b)
    ELSE Fail(<<Exc("NoCommonTypeError", <<a, b>>)>>, <<>>)

common(a, b) == common_t(TypeOf(a), TypeOf(b))

(***************************************************************************)
(* exseos/types/Variable.py                                                *)
(***************************************************************************)
\* BoundVariable.__init__(name, val, var_type, desc, default)
BoundVariable_init(name, val, var_type, default) ==
    LET ctype == common(val, default[1])
        inferred_type ==
            IF default = Nothing THEN Some(TypeOf(val))
            ELSE IF is_fail(ctype) THEN Nothing ELSE Some(ctype.val)
    IN  [t |-> "BoundVariable", name |-> name, bval |-> Some(val), default |-> default,
         var_type |-> IF var_type = Nothing THEN inferred_type ELSE var_type,
         inferred |-> var_type = Nothing /\ inferred_type # Nothing]

\* BoundVariable(name, val, default=...): no var_type given
BoundVariable(name, val, default) == BoundVariable_init(name, val, Nothing, default)

\* UnboundVariable.__init__(name, var_type, desc, default)
UnboundVariable_init(name, var_type, default) ==
    [t |-> "UnboundVariable", name |-> name, bval |-> Nothing, default |-> default,
     var_type |-> IF var_type = Nothing /\ default # Nothing
                  THEN Some(TypeOf(default[1])) ELSE var_type,
     inferred |-> var_type = Nothing /\ default # Nothing]

\* UnboundVariable(name, default=...): no var_type given
UnboundVariable(name, default) == UnboundVariable_init(name, Nothing, default)

Variable_is_bound(v) == v.t = "BoundVariable"

\* Variable.val: Some(value) when bound, else the default
Variable_val(v) == IF Variable_is_bound(v) THEN v.bval ELSE v.default

\* bind(val): BoundVariable(self.name, val, self.var_type, self.desc, self.default)
Variable_bind(v, val) == BoundVariable_init(v.name, val, v.var_type, v.default)

\* == on two Python values: a bool equals the int of the same number
PyNum(val) == IF val.t = "bool" THEN (IF val.v THEN 1 ELSE 0) ELSE val.v

PyEquals(a, b) ==
    IF a.t \in {"int", "bool"} /\ b.t \in {"int", "bool"} THEN PyNum(a) = PyNum(b)
    ELSE a = b

\* Option.__eq__: both empty, or both holding == values
Option_eq(a, b) ==
    IF has_val(a) THEN has_val(b) /\ PyEquals(a[1], b[1]) ELSE ~has_val(b)

\* Variable.__eq__(self, other): the inferred flag takes no part
Variable_eq(self, other) ==
    IF Variable_is_bound(self) /\ ~Variable_is_bound(other) THEN FALSE
    ELSE IF Variable_is_bound(self) /\ TypeOf(self.bval[1]) # TypeOf(other.bval[1]) THEN FALSE
    ELSE IF Variable_is_bound(self) /\ ~PyEquals(self.bval[1], other.bval[1]) THEN FALSE
    ELSE /\ self.name = other.name
         /\ Variable_is_bound(self) = Variable_is_bound(other)
         /\ self.var_type = other.var_type
         /\ Option_eq(self.default, other.default)

\* a type check that accepts a subclass relation in either direction
assert_types_match_either_way(v1, v2, fail_on_explicit_mismatch) ==
    IF v1.var_type = Nothing \/ v2.var_type = Nothing THEN Okay(PyNone)
    ELSE IF issubclass(v2.var_type[1], v1.var_type[1]) \/ issubclass(v1.var_type[1], v2.var_type[1])
    THEN Okay(PyNone)
    ELSE IF v1.inferred \/ v2.inferred
    THEN Warn(<<Exc("InferredTypeMismatchWarning", <<v1, v2>>)>>, PyNone)
    ELSE IF fail_on_explicit_mismatch
    THEN Fail(<<Exc("ExplicitTypeMismatchError", <<v1, v2>>)>>, <<>>)
    ELSE Warn(<<Exc("ExplicitTypeMismatchError", <<v1, v2>>)>>, PyNone)

\* assert_types_match(v1, v2, fail_on_explicit_mismatch)
assert_types_match(v1, v2, fail_on_explicit_mismatch) ==
    IF v1.var_type = Nothing \/ v2.var_type = Nothing THEN Okay(PyNone)
    ELSE IF /\ issubclass(v2.var_type[1], v1.var_type[1])
            /\ ~(v2.var_type[1] = "bool" /\ v1.var_type[1] = "int")
    THEN Okay(PyNone)
    ELSE IF v1.inferred \/ v2.inferred
    THEN Warn(<<Exc("InferredTypeMismatchWarning", <<v1, v2>>)>>, PyNone)
    ELSE IF fail_on_explicit_mismatch
    THEN Fail(<<Exc("ExplicitTypeMismatchError", <<v1, v2>>)>>, <<>>)
    ELSE Warn(<<Exc("ExplicitTypeMismatchError", <<v1, v2>>)>>, PyNone)

(***************************************************************************)
(* exseos/workflow/stage/Stage.py                                          *)
(*                                                                         *)
(* A Stage class is its declared input_vars and output_vars and the        *)
(* behaviour of its run(); a Stage instance adds the per-slot bindings     *)
(* computed by the constructor from the positional and keyword arguments.  *)
(***************************************************************************)
StageClass(name, input_vars, output_vars) ==
    [name |-> name, input_vars |-> input_vars, output_vars |-> output_vars]

\* __atov: a str becomes an unbound variable of that name; "type(a) is
\* Variable" holds for no instance (BoundVariable and UnboundVariable are
\* subclasses), so every other argument gives Nothing
atov(a) ==
    IF a.t = "str" THEN Some(UnboundVariable(a.v, Nothing))
    ELSE IF a.t = "Variable" THEN Some(a)
    ELSE Nothing

\* dex is the 0-based offset of declared variable i; args is the sequence of
\* positional arguments and kwargs a function from names to arguments
process_stage_io(dex, i, args, kwargs) ==
    IF Len(args) > dex THEN atov(args[dex + 1])
    ELSE IF i.name \in DOMAIN kwargs THEN atov(kwargs[i.name])
    ELSE Nothing

NoKwargs == [n \in {} |-> PyNone]

\* Stage.__init__(*args, _to=to, _flags=implicit, **kwargs)
Stage(cls, args, kwargs, to, implicit) ==
    [cls |-> cls.name,
     input_vars |-> cls.input_vars,
     output_vars |-> cls.output_vars,
     inputs |-> [k \in 1..Len(cls.input_vars) |->
                   <<cls.input_vars[k],
                     process_stage_io(k - 1, cls.input_vars[k], args, kwargs)>>],
     outputs |-> [k \in 1..Len(cls.output_vars) |->
                   <<cls.output_vars[k],
                     process_stage_io(k - 1, cls.output_vars[k], to[1], to[2])>>],
     is_implicit |-> implicit]

(***************************************************************************)
(* exseos/workflow/wiring/Wiring.py: WiredStageVariable, WiredStageIO      *)
(***************************************************************************)
WiredStageVariable(wire_var, local_var) ==
    [t |-> "WiredStageVariable", wire_var |-> wire_var, local_var |-> local_var]

WSV_bind(v, val) ==
    WiredStageVariable(
        IF has_val(v.wire_var) THEN Some(Variable_bind(v.wire_var[1], val)) ELSE Nothing,
        Variable_bind(v.local_var, val))

has_wire(v) == has_val(v.wire_var)

\* WiredStageVariable.__eq__(self, other)
WiredStageVariable_eq(self, other) ==
    IF has_wire(self) # has_wire(other) THEN FALSE
    ELSE IF has_wire(self)
    THEN Variable_eq(self.wire_var[1], other.wire_var[1])
           /\ Variable_eq(self.local_var, other.local_var)
    ELSE Variable_eq(self.local_var, other.local_var)

\* zip(xs, ys) stops at the end of the shorter
zip(xs, ys) ==
    [k \in 1..(IF Len(xs) < Len(ys) THEN Len(xs) ELSE Len(ys)) |-> <<xs[k], ys[k]>>]

\* WiredVariableSet.__eq__(self, other): all([x == y for x, y in zip(...)])
WiredVariableSet_eq(self_vars, other_vars) ==
    LET pairs == zip(self_vars, other_vars)
    IN  \A k \in 1..Len(pairs) : WiredStageVariable_eq(pairs[k][1], pairs[k][2])

wire_name(v) == IF has_val(v.wire_var) THEN Some(v.wire_var[1].name) ELSE Nothing

local_name(v) == v.local_var.name

WSV_is_bound(v) ==
    Variable_is_bound(v.local_var)
      \/ (has_wire(v) /\ Variable_is_bound(v.wire_var[1]))

has_default(v) ==
    has_val(v.local_var.default)
      \/ (has_wire(v) /\ has_val(v.wire_var[1].default))

\* indices of the variables of a WiredStageIO whose wire-name is name
WireMatches(vars, name) ==
    {k \in 1..Len(vars) : has_val(wire_name(vars[k])) /\ wire_name(vars[k])[1] = name}

LocalMatches(vars, name) == {k \in 1..Len(vars) : local_name(vars[k]) = name}

Min(S) == CHOOSE k \in S : \A j \in S : k <= j

Max(S) == CHOOSE k \in S : \A j \in S : k >= j

\* matches[0] of the list comprehension, if any
get_by_wire(vars, name) ==
    IF WireMatches(vars, name) # {} THEN Some(vars[Min(WireMatches(vars, name))])
    ELSE Nothing

get_by_local(vars, name) ==
    IF LocalMatches(vars, name) # {} THEN Some(vars[Min(LocalMatches(vars, name))])
    ELSE Nothing

\* bind_to_names.index(n): the first position of n in bind_to
IndexOf(bind_to, n) == Min({k \in 1..Len(bind_to) : bind_to[k].name = n})

\* WiredStageIO.bind(bind_to); bind_to[dex].val.val is the bound value, or
\* the default of an unbound variable
WiredStageIO_bind(vars, bind_to) ==
    [k \in 1..Len(vars) |->
       IF \E j \in 1..Len(bind_to) : bind_to[j].name = local_name(vars[k])
       THEN WSV_bind(vars[k],
                     Variable_val(bind_to[IndexOf(bind_to, local_name(vars[k]))])[1])
       ELSE vars[k]]

from_input(stage) ==
    IF stage.is_implicit
    THEN [k \in 1..Len(stage.input_vars) |->
            WiredStageVariable(Some(stage.input_vars[k]), stage.input_vars[k])]
    ELSE [k \in 1..Len(stage.inputs) |->
            WiredStageVariable(stage.inputs[k][2], stage.inputs[k][1])]

from_output(stage) ==
    IF stage.is_implicit
    THEN [k \in 1..Len(stage.output_vars) |->
            WiredStageVariable(Some(stage.output_vars[k]), stage.output_vars[k])]
    ELSE [k \in 1..Len(stage.outputs) |->
            WiredStageVariable(stage.outputs[k][2], stage.outputs[k][1])]

from_global_io(vars) ==
    [k \in 1..Len(vars) |-> WiredStageVariable(Some(vars[k]), vars[k])]

(***************************************************************************)
(* Wiring.py: bindings and wiring paths.  A path string is the sequence of *)
(* its tokens: the separator "/", a decimal index, a name.                 *)
(***************************************************************************)
SelfBinding == [t |-> "SelfBinding", link |-> <<>>]

LinkBinding(link) == [t |-> "LinkBinding", link |-> link]

DefaultBinding == [t |-> "DefaultBinding", link |-> <<>>]

NoBinding == [t |-> "NoBinding", link |-> <<>>]

Wire(var, binding) == [var |-> var, binding |-> binding]

Digits == <<"0", "1", "2", "3", "4", "5", "6", "7", "8", "9">>

\* str(i) of an index below 10
IntToStr(i) == Digits[i + 1]

IsDigitStr(s) == \E i \in 1..Len(Digits) : Digits[i] = s

\* int(s) of a one-digit string
StrToInt(s) == (CHOOSE i \in 1..Len(Digits) : Digits[i] = s) - 1

\* f"/stage/{index}/{name}"
StagePath(index, name) == <<"/", "stage", "/", IntToStr(index), "/", name>>

\* f"/inputs/{name}"
InputPath(name) == <<"/", "inputs", "/", name>>

\* as find_in_reversed, but searching the stages from the first to the last
RECURSIVE find_in_forward(_, _, _)
find_in_forward(stages, dex, to_find_wire_name) ==
    IF dex >= Len(stages) THEN Nothing
    ELSE IF has_val(get_by_wire(stages[dex + 1], to_find_wire_name))
    THEN Some(StagePath(dex, to_find_wire_name))
    ELSE find_in_forward(stages, dex + 1, to_find_wire_name)

\* the loop "for dex, stage in enumerate(reversed(stages))" from index dex on:
\* reversed(stages)[dex] is stages[len(stages) - 1 - dex]
RECURSIVE find_in_reversed(_, _, _)
find_in_reversed(stages, dex, to_find_wire_name) ==
    IF dex >= Len(stages) THEN Nothing
    ELSE IF has_val(get_by_wire(stages[Len(stages) - dex], to_find_wire_name))
    THEN Some(StagePath(Len(stages) - (1 + dex), to_find_wire_name))
    ELSE find_in_reversed(stages, dex + 1, to_find_wire_name)

find_binding_path(stages, inputs, to_find_wire_name) ==
    IF has_val(find_in_reversed(stages, 0, to_find_wire_name))
    THEN find_in_reversed(stages, 0, to_find_wire_name)
    ELSE IF has_val(get_by_wire(inputs, to_find_wire_name))
    THEN Some(InputPath(to_find_wire_name))
    ELSE Nothing

\* as make_wire_binding, but searching stage_outputs[:dex + 1], the stage's
\* own outputs included
make_wire_binding_own(stage_outputs, global_inputs, dex, v) ==
    LET upto == IF dex + 1 > Len(stage_outputs) THEN Len(stage_outputs) ELSE dex + 1
        found == find_binding_path(SubSeq(stage_outputs, 1, upto), global_inputs,
                                   wire_name(v)[1])
    IN  IF WSV_is_bound(v) THEN SelfBinding
        ELSE IF has_wire(v) /\ has_val(found) THEN LinkBinding(found[1])
        ELSE IF has_default(v) THEN DefaultBinding
        ELSE NoBinding

\* as make_wire_binding, but falling back to the default before searching
make_wire_binding_default_first(stage_outputs, global_inputs, dex, v) ==
    LET found == find_binding_path(SubSeq(stage_outputs, 1, dex), global_inputs,
                                   wire_name(v)[1])
    IN  IF WSV_is_bound(v) THEN SelfBinding
        ELSE IF has_default(v) THEN DefaultBinding
        ELSE IF has_wire(v) /\ has_val(found) THEN LinkBinding(found[1])
        ELSE NoBinding

\* Wiring.wire._make_wire_binding(dex, v), dex 0-based
make_wire_binding(stage_outputs, global_inputs, dex, v) ==
    IF WSV_is_bound(v) THEN SelfBinding
    ELSE IF has_wire(v)
            /\ has_val(find_binding_path(SubSeq(stage_outputs, 1, dex), global_inputs,
                                         wire_name(v)[1]))
    THEN LinkBinding(find_binding_path(SubSeq(stage_outputs, 1, dex), global_inputs,
                                       wire_name(v)[1])[1])
    ELSE IF has_default(v) THEN DefaultBinding
    ELSE NoBinding

\* the Wiring object: Wiring.__init__
Wiring(inputs, outputs, stages, wires, wire_status, bound_inputs, bound_intermediate_outputs) ==
    [inputs |-> inputs, outputs |-> outputs, stages |-> stages, wires |-> wires,
     status |-> wire_status, bound_inputs |-> bound_inputs,
     bound_intermediate_outputs |-> bound_intermediate_outputs]

\* Wiring.wire(inputs, outputs, stages); wires["stages"] is keyed by str(dex)
Wiring_wire(inputs, outputs, stages) ==
    LET stage_inputs == [k \in 1..Len(stages) |-> from_input(stages[k])]
        stage_outputs == [k \in 1..Len(stages) |-> from_output(stages[k])]
        global_inputs == from_global_io(inputs)
        global_outputs == from_global_io(outputs)
        wires ==
          [stages |->
             [key \in {IntToStr(d) : d \in 0..(Len(stages) - 1)} |->
                [j \in 1..Len(stage_inputs[StrToInt(key) + 1]) |->
                   Wire(stage_inputs[StrToInt(key) + 1][j],
                        make_wire_binding(stage_outputs, global_inputs, StrToInt(key),
                                          stage_inputs[StrToInt(key) + 1][j]))]],
           outputs |->
             [j \in 1..Len(global_outputs) |->
                Wire(global_outputs[j],
                     make_wire_binding(stage_outputs, global_inputs, Len(stages),
                                       global_outputs[j]))]]
    IN  Wiring(global_inputs, global_outputs, stage_outputs, wires, Okay(PyNone),
               Nothing, <<>>)

(***************************************************************************)
(* exseos/types/Variable.py: VariableSet                                   *)
(***************************************************************************)
\* dict(var_pairs): one entry per name, at the position of the name's first
\* occurrence and with the value of its last occurrence
DictOf(vars) ==
    LET firsts == {k \in 1..Len(vars) : \A j \in 1..(k - 1) : vars[j].name # vars[k].name}
        last(k) == Max({j \in 1..Len(vars) : vars[j].name = vars[k].name})
        RECURSIVE build(_)
        build(k) ==
          IF k > Len(vars) THEN <<>>
          ELSE IF k \in firsts THEN <<vars[last(k)]>> \o build(k + 1)
          ELSE build(k + 1)
    IN  build(1)

\* one AmbiguousVariableError per position whose name occurs again at or after it
AmbiguityStatus(vars) ==
    LET dup(k) == Cardinality({j \in k..Len(vars) : vars[j].name = vars[k].name}) > 1
        bucket(k) == SelectSeq(vars, LAMBDA vr : vr.name = vars[k].name)
        RECURSIVE fold(_, _)
        fold(k, st) ==
          IF k > Len(vars) THEN st
          ELSE IF dup(k)
          THEN fold(k + 1, lshift(st, Warn(<<Exc("AmbiguousVariableError",
                                                 [name |-> vars[k].name,
                                                  candidates |-> bucket(k)])>>,
                                            PyNone)))
          ELSE fold(k + 1, st)
    IN  fold(1, Okay(PyNone))

VariableSet(vars) ==
    [t |-> "VariableSet", vars |-> DictOf(vars), status |-> AmbiguityStatus(vars)]

\* as check_one, but a variable without a value passes
check_one_lenient(vs, v) ==
    IF \E k \in 1..Len(vs.vars) : vs.vars[k].name = v
    THEN Okay(PyNone)
    ELSE Fail(<<Exc("AttributeError", v)>>, <<>>)

\* __check_one(name)
check_one(vs, v) ==
    IF \E k \in 1..Len(vs.vars) : vs.vars[k].name = v
    THEN IF has_val(Variable_val(vs.vars[CHOOSE k \in 1..Len(vs.vars) : vs.vars[k].name = v]))
         THEN Okay(PyNone)
         ELSE Fail(<<Exc("UnboundVariableError", v)>>, <<>>)
    ELSE Fail(<<Exc("AttributeError", v)>>, <<>>)

\* check(*args): merge_all with its default strategy and empty
check(vs, args) ==
    merge_all([k \in 1..Len(args) |-> check_one(vs, args[k])], "KEEP_LAST", PyNone)

check_all(vs) == check(vs, [k \in 1..Len(vs.vars) |-> vs.vars[k].name])

\* VariableSet.get_var(name) of a variable that is present and has a value
get_var(vs, name) ==
    Variable_val(vs.vars[CHOOSE k \in 1..Len(vs.vars) : vs.vars[k].name = name])[1]

\* what a call returns that does not return a Result
Return(val) == [tag |-> "Return", val |-> val]

\* VariableSet.get_var(name) as a call: the value, or the exception raised
get_var_call(vs, name) ==
    IF \E k \in 1..Len(vs.vars) : vs.vars[k].name = name
    THEN IF has_val(Variable_val(vs.vars[CHOOSE k \in 1..Len(vs.vars) : vs.vars[k].name = name]))
         THEN Return(get_var(vs, name))
         ELSE Raise(Exc("UnboundVariableError", name))
    ELSE Raise(Exc("AttributeError", name))

(***************************************************************************)
(* Wiring.py: run-time binding and resolution                              *)
(***************************************************************************)
bind_inputs(w, inputs) ==
    Wiring(w.inputs, w.outputs, w.stages, w.wires, w.status,
           Some(from_global_io(inputs)), w.bound_intermediate_outputs)

\* as bind_stage, but the stage's outputs are not recorded
bind_stage_unrecorded(w, stage_index, stage_outputs) == w

\* stage_index is 0-based; the bound outputs are appended to the tuple
bind_stage(w, stage_index, stage_outputs) ==
    Wiring(w.inputs, w.outputs, w.stages, w.wires, w.status, w.bound_inputs,
           Append(w.bound_intermediate_outputs,
                  WiredStageIO_bind(w.stages[stage_index + 1], stage_outputs)))

\* a bind_stage that records the outputs on self as well
bind_stage_in_place(w, stage_index, stage_outputs) == bind_stage(w, stage_index, stage_outputs)

\* the Wiring bind_inputs was called on, after the call: no field of self is
\* assigned
bind_inputs_self(w, inputs) == w

\* the Wiring bind_stage was called on, after the call: no field of self is
\* assigned, and the tuple of recorded outputs is concatenated, not extended
bind_stage_self(w, stage_index, stage_outputs) == w

\* pth.split("/"): the segments between the separators; a segment of these
\* paths is empty or a single token
RECURSIVE SplitTokens(_, _, _)
SplitTokens(tokens, cur, acc) ==
    IF tokens = <<>> THEN Append(acc, cur)
    ELSE IF Head(tokens) = "/" THEN SplitTokens(Tail(tokens), "", Append(acc, cur))
    ELSE SplitTokens(Tail(tokens), Head(tokens), acc)

Split(pth) == PyList(SplitTokens(pth, "", <<>>))

\* _lookup_wire_path(pth): "match segs" tests the list segs against the str
\* literals "inputs" and "stages", then falls to the wildcard
lookup_wire_path(w, pth) ==
    LET segs == Split(pth)
    IN  IF PyEq(segs, PyStr("inputs"))
        THEN IF Len(segs.v) # 2
             THEN Fail(<<Exc("LookupError", pth)>>, <<>>)
             ELSE IF has_val(w.bound_inputs)
                     /\ has_val(get_by_wire(w.bound_inputs[1], segs.v[2]))
             THEN Okay(get_by_wire(w.bound_inputs[1], segs.v[2])[1])
             ELSE Fail(<<Exc("LookupError", pth)>>, <<>>)
        ELSE IF PyEq(segs, PyStr("stages"))
        THEN IF Len(segs.v) # 3
             THEN Fail(<<Exc("LookupError", pth)>>, <<>>)
             ELSE IF ~IsDigitStr(segs.v[2])
             THEN Raise(Exc("ValueError", segs.v[2]))
             ELSE IF Len(w.bound_intermediate_outputs) > StrToInt(segs.v[2])
             THEN Raise(Exc("TypeError", "tuple indices must be integers"))
             ELSE Fail(<<Exc("LookupError", pth)>>, <<>>)
        ELSE Fail(<<Exc("LookupError", pth)>>, <<>>)

\* a _resolve that takes the wire's own variable whatever the binding
resolve_unchecked(w, wire) == Okay(wire.var)

\* _resolve(wire)
resolve(w, wire) ==
    IF wire.binding.t \in {"SelfBinding", "DefaultBinding", "NoBinding"}
    THEN Okay(wire.var)
    ELSE IF wire.binding.t = "LinkBinding"
    THEN lookup_wire_path(w, wire.binding.link)
    ELSE Fail(<<Exc("ValueError", wire.binding.t)>>, <<>>)

\* the first raise among the results of a list comprehension, if any
FirstRaise(rs) == rs[Min({k \in 1..Len(rs) : is_raise(rs[k])})]

AnyRaise(rs) == \E k \in 1..Len(rs) : is_raise(rs[k])

\* Result.map(f), with fv the value of f(r.val)
Result_map(r, fv) ==
    IF is_fail(r) THEN r
    ELSE IF is_okay(r) THEN Okay(fv)
    ELSE Warn(r.warnings, fv)

\* bool(wsvars): None and the empty list are falsy
Truthy(wsvars) == wsvars.t = "list" /\ Len(wsvars.v) > 0

\* the two chained maps of get_stage_inputs and get_outputs applied to the
\* merged Result: [v.local_var for v in wsvars] (guarded by "if wsvars else
\* []" in get_stage_inputs only), then VariableSet(tuple(vars)).  Iterating
\* None raises TypeError; a None element has no attribute local_var
ToVariableSet(merged, guarded) ==
    IF is_fail(merged) THEN merged
    ELSE IF guarded /\ ~Truthy(merged.val) THEN Result_map(merged, VariableSet(<<>>))
    ELSE IF merged.val.t # "list" THEN Raise(Exc("TypeError", "not iterable"))
    ELSE IF \E k \in 1..Len(merged.val.v) : merged.val.v[k].t # "WiredStageVariable"
    THEN Raise(Exc("AttributeError", "local_var"))
    ELSE Result_map(merged,
                    VariableSet([k \in 1..Len(merged.val.v) |-> merged.val.v[k].local_var]))

\* get_stage_inputs(stage_index): only KeyError is caught
get_stage_inputs(w, stage_index) ==
    IF IntToStr(stage_index) \notin DOMAIN w.wires.stages
    THEN Fail(<<Exc("KeyError", IntToStr(stage_index))>>, <<>>)
    ELSE LET ws == w.wires.stages[IntToStr(stage_index)]
             rs == [k \in 1..Len(ws) |-> resolve(w, ws[k])]
         IN  IF AnyRaise(rs) THEN FirstRaise(rs)
             ELSE ToVariableSet(merge_all(rs, "APPEND", PyNone), TRUE)

\* get_outputs(): every exception is caught and returned as Fail([e])
get_outputs(w) ==
    LET ws == w.wires.outputs
        rs == [k \in 1..Len(ws) |-> resolve(w, ws[k])]
        res == IF AnyRaise(rs) THEN FirstRaise(rs)
               ELSE ToVariableSet(merge_all(rs, "APPEND", PyNone), FALSE)
    IN  IF is_raise(res) THEN Fail(<<res.exc>>, <<>>) ELSE res

(***************************************************************************)
(* The workflows of the model: Stage classes, their instances, and the     *)
(* inputs and outputs given to MakeWorkflow.                               *)
(***************************************************************************)
WireNames == {"x", "y"}

\* the value every generic stage binds its outputs to, the value of a
\* pre-bound variable, a declared default, and the value bound to a global input
StageVal == 7

BoundVal == 5

DefaultVal == 0

InputVal == 2

GenericClasses ==
    {StageClass("Source", <<>>, <<UnboundVariable("r", Nothing)>>),
     StageClass("Plain", <<UnboundVariable("a", Nothing)>>, <<UnboundVariable("r", Nothing)>>),
     StageClass("Defaulted", <<UnboundVariable("a", Some(PyInt(DefaultVal)))>>,
                <<UnboundVariable("r", Nothing)>>),
     StageClass("Prebound", <<BoundVariable("a", PyInt(BoundVal), Nothing)>>,
                <<UnboundVariable("r", Nothing)>>)}

\* positional arguments of an instance: none, or the wire-name "x" for the input
ArgChoices(cls) == IF Len(cls.input_vars) = 0 THEN {<<>>} ELSE {<<>>, <<PyStr("x")>>}

\* arguments of to(...): none, or a wire-name for the output
ToChoices == {<<>>} \cup {<<PyStr(n)>> : n \in WireNames}

GenericStages ==
    {Stage(cls, args, NoKwargs, <<to, NoKwargs>>, FALSE) :
       cls \in GenericClasses, args \in UNION {ArgChoices(c) : c \in GenericClasses},
       to \in ToChoices}

StageSeqs == UNION {[1..n -> GenericStages] : n \in 0..MaxStages}

GivenChoices == {<<>>, <<UnboundVariable("x", Nothing)>>}

OutputChoices ==
    {<<>>, <<UnboundVariable("x", Some(PyInt(DefaultVal)))>>, <<BoundVariable("x", PyInt(BoundVal), Nothing)>>}
      \cup {<<UnboundVariable(n, Nothing)>> : n \in WireNames}

\* src/test/workflow/test_Workflow.py: MakeBase and RaiseToPower
MakeBaseClass ==
    StageClass("MakeBase", <<>>, <<UnboundVariable_init("x", Some("int"), Nothing)>>)

RaiseToPowerClass ==
    StageClass("RaiseToPower",
               <<UnboundVariable_init("x", Some("int"), Some(PyInt(0))),
                 UnboundVariable_init("pow", Some("int"), Some(PyInt(1)))>>,
               <<UnboundVariable_init("result", Some("int"), Nothing)>>)

\* given("to_pow").from_stages(MakeBase().to("x_wire"),
\*   RaiseToPower("x_wire", "to_pow").to("res_wire")).output_to("res_wire")
IntegrationWorkflow ==
    [inputs |-> <<UnboundVariable("to_pow", Nothing)>>,
     stages |-> <<Stage(MakeBaseClass, <<>>, NoKwargs, <<<<PyStr("x_wire")>>, NoKwargs>>, FALSE),
                  Stage(RaiseToPowerClass, <<PyStr("x_wire"), PyStr("to_pow")>>, NoKwargs,
                        <<<<PyStr("res_wire")>>, NoKwargs>>, FALSE)>>,
     outputs |-> <<UnboundVariable("res_wire", Nothing)>>]

Workflows ==
    {[inputs |-> i, stages |-> s, outputs |-> o] :
       i \in GivenChoices, s \in StageSeqs, o \in OutputChoices}
      \cup {IntegrationWorkflow}

(***************************************************************************)
(* Stage.run of the modelled classes                                       *)
(***************************************************************************)
\* src/test/workflow/test_Workflow.py:50 and :66
MakeBaseVal == 71

PowVal == 2

\* the outputs tuple of a generic stage: every declared output bound to StageVal
GenericOutputs(stage) ==
    PyTuple([k \in 1..Len(stage.output_vars) |-> Variable_bind(stage.output_vars[k], PyInt(StageVal))])

StageOutcomes == {"Okay", "Warn", "Fail", "raise"}

\* stage.run(inputs, ui): MakeBase and RaiseToPower as in the tests; any other
\* stage ends in one of the four outcomes a Stage can end in
Stage_run(stage, inputs, outcome) ==
    IF stage.cls = "MakeBase"
    THEN Okay(PyTuple(<<Variable_bind(stage.output_vars[1], PyInt(MakeBaseVal))>>))
    ELSE IF stage.cls = "RaiseToPower"
    THEN IF is_fail(check_all(inputs)) THEN check_all(inputs)
         ELSE Okay(PyTuple(<<Variable_bind(stage.output_vars[1],
                                           PyInt(get_var(inputs, "x").v ^ get_var(inputs, "pow").v))>>))
    ELSE CASE outcome = "Okay" -> Okay(GenericOutputs(stage))
           [] outcome = "Warn" -> Warn(<<Exc("StageWarning", stage.cls)>>, GenericOutputs(stage))
           [] outcome = "Fail" -> Fail(<<Exc("StageError", stage.cls)>>, <<>>)
           [] outcome = "raise" -> Raise(Exc("StageException", stage.cls))

(***************************************************************************)
(* State: the MakeWorkflow definition, the Workflow built from it, and the *)
(* locals of one Workflow.run, which suspends at "await stage.run" and at  *)
(* "await self.ui.display".                                                *)
(***************************************************************************)
VARIABLES
    defn,             \* MakeWorkflow: inputs, stages, outputs
    wiring,           \* Workflow.wiring: Nothing until MakeWorkflow.__call__
    pc,               \* "make", "ready", "running", "display", "returned", "raised"
    run_wiring,       \* the local wiring of Workflow.run
    run_result,       \* the local run_result
    dex,              \* the loop index
    stage_input_res,  \* the local stage_input_res
    ret,              \* what run returns (a Result) or raises (a Raise)
    invoked,          \* history: indices of the stages whose run was called
    resolutions,      \* history: what get_stage_inputs returned or raised, per call
    stage_results,    \* history: what each stage.run returned or raised
    final_outputs,    \* history: Some(what get_outputs returned), once called
    displayed,        \* history: the Results passed to ui.display
    lib_in,           \* the arguments of a call of a library function
    lib_out           \* the function called last and what it returned

vars == <<defn, wiring, pc, run_wiring, run_result, dex, stage_input_res, ret,
          invoked, resolutions, stage_results, final_outputs, displayed,
          lib_in, lib_out>>

\* no library function is under call
NoCall == [fn |-> "none"]

NoRet == [tag |-> "None"]

\* the tuple passed to Workflow.run: every given input bound to a value
RunInputs == [k \in 1..Len(defn.inputs) |->
                Variable_bind(defn.inputs[k],
                              PyInt(IF defn = IntegrationWorkflow THEN PowVal ELSE InputVal))]

Init ==
    /\ defn \in Workflows
    /\ wiring = Nothing
    /\ pc = "make"
    /\ run_wiring = Nothing
    /\ run_result = Okay(PyNone)
    /\ dex = 0
    /\ stage_input_res = Okay(PyNone)
    /\ ret = NoRet
    /\ invoked = <<>>
    /\ resolutions = <<>>
    /\ stage_results = <<>>
    /\ final_outputs = Nothing
    /\ displayed = <<>>
    /\ lib_in = NoCall
    /\ lib_out = NoCall

\* MakeWorkflow.__call__: the Workflow and its Wiring
MakeWorkflow_call ==
    /\ pc = "make"
    /\ wiring' = Some(Wiring_wire(defn.inputs, defn.outputs, defn.stages))
    /\ pc' = "ready"
    /\ UNCHANGED <<defn, run_wiring, run_result, dex, stage_input_res, ret, invoked,
                   resolutions, stage_results, final_outputs, displayed, lib_in, lib_out>>

\* as ResolutionFailed, but the check is never taken
ResolutionFailed_never(rr) == FALSE

\* "if run_result.is_fail" after the stage inputs are merged in
ResolutionFailed(rr) == is_fail(rr)

\* "if run_result.is_fail" after the stage's Result is merged in
StageFailed(rr) == is_fail(rr)

\* "if run_result.is_fail" after the final outputs are merged in
OutputsFailed(rr) == is_fail(rr)

\* Workflow.run from the head of the loop at index d, with locals w and rr, up
\* to its next suspension or its end
LoopFrom(w, rr, d) ==
    IF d < Len(defn.stages)
    THEN LET sir == get_stage_inputs(w, d)
             merged == lshift(rr, sir)
         IN  /\ resolutions' = Append(resolutions, sir)
             /\ stage_input_res' = sir
             /\ run_wiring' = Some(w)
             /\ dex' = d
             /\ UNCHANGED final_outputs
             /\ IF is_raise(sir)
                THEN /\ pc' = "raised"
                     /\ ret' = sir
                     /\ run_result' = rr
                     /\ UNCHANGED <<invoked, displayed>>
                ELSE IF ResolutionFailed(merged)
                THEN /\ pc' = "display"
                     /\ run_result' = merged
                     /\ displayed' = Append(displayed, merged)
                     /\ ret' = merged
                     /\ UNCHANGED invoked
                ELSE /\ pc' = "running"
                     /\ run_result' = merged
                     /\ invoked' = Append(invoked, d)
                     /\ UNCHANGED <<ret, displayed>>
    ELSE LET fo == get_outputs(w)
             merged == lshift(rr, fo)
         IN  /\ final_outputs' = Some(fo)
             /\ run_wiring' = Some(w)
             /\ run_result' = merged
             /\ dex' = d
             /\ ret' = Result_map(merged, fo.val)
             /\ UNCHANGED <<stage_input_res, invoked, resolutions>>
             /\ IF OutputsFailed(merged)
                THEN /\ pc' = "display"
                     /\ displayed' = Append(displayed, merged)
                ELSE /\ pc' = "returned"
                     /\ UNCHANGED displayed

\* Workflow.run(inputs) is called: is_runnable, bind_inputs, then the loop
Run_begin ==
    /\ pc = "ready"
    /\ ~is_fail(wiring[1].status)
    /\ LoopFrom(bind_inputs(wiring[1], RunInputs), Okay(PyNone), 0)
    /\ UNCHANGED <<defn, wiring, stage_results, lib_in, lib_out>>

\* "await stage.run(...)" completes with stage_res (returned or raised)
Run_stage_returns ==
    /\ pc = "running"
    /\ \E outcome \in StageOutcomes :
         LET stage_res == Stage_run(defn.stages[dex + 1], stage_input_res.val, outcome)
         IN  /\ stage_results' = Append(stage_results, stage_res)
             /\ IF is_raise(stage_res)
                THEN /\ pc' = "display"
                     /\ displayed' = Append(displayed, run_result)
                     /\ ret' = lshift(run_result, Fail(<<stage_res.exc>>, <<>>))
                     /\ UNCHANGED <<run_wiring, run_result, dex, stage_input_res, invoked,
                                    resolutions, final_outputs>>
                ELSE IF StageFailed(lshift(run_result, stage_res))
                THEN /\ pc' = "display"
                     /\ run_result' = lshift(run_result, stage_res)
                     /\ displayed' = Append(displayed, lshift(run_result, stage_res))
                     /\ ret' = lshift(run_result, stage_res)
                     /\ UNCHANGED <<run_wiring, dex, stage_input_res, invoked, resolutions,
                                    final_outputs>>
                ELSE LoopFrom(bind_stage(run_wiring[1], dex, stage_res.val.v),
                              lshift(lshift(run_result, stage_res), stage_res),
                              dex + 1)
    /\ UNCHANGED <<defn, wiring, lib_in, lib_out>>

\* "await self.ui.display(...)" completes and run returns
Run_display_returns ==
    /\ pc = "display"
    /\ pc' = "returned"
    /\ UNCHANGED <<defn, wiring, run_wiring, run_result, dex, stage_input_res, ret,
                   invoked, resolutions, stage_results, final_outputs, displayed,
                   lib_in, lib_out>>

Next ==
    \/ MakeWorkflow_call
    \/ Run_begin
    \/ Run_stage_returns
    \/ Run_display_returns

Spec == Init /\ [][Next]_vars

(***************************************************************************)
(* Calls of the library functions on their own: the arguments are drawn    *)
(* in the initial state and each action is one call.                       *)
(***************************************************************************)
\* longest list of warnings or of errors held by an argument
MaxDiag == 2

\* most Results passed to one merge_all
MaxArgs == 3

wf_vars == <<defn, wiring, pc, run_wiring, run_result, dex, stage_input_res, ret,
             invoked, resolutions, stage_results, final_outputs, displayed>>

LibValues == {PyStr("a"), PyStr("b"), PyList(<<PyStr("a")>>)}

LibWarnings == {Exc("ArithmeticError", "6"), Exc("TypeError", "cool")}

LibErrors == {Exc("OSError", "wow"), Exc("SyntaxError", "test")}

DiagLists(S) == UNION {[1..n -> S] : n \in 0..MaxDiag}

LibResults ==
    {Okay(v) : v \in LibValues}
      \cup {Warn(ws, v) : ws \in DiagLists(LibWarnings), v \in LibValues}
      \cup {Fail(es, ws) : es \in DiagLists(LibErrors), ws \in DiagLists(LibWarnings)}

Strategies == {"KEEP_FIRST", "KEEP_LAST", "APPEND"}

MergeArgs == {[kind |-> "merge", a |-> a, b |-> b] : a \in LibResults, b \in LibResults}

\* most bind_inputs / bind_stage calls made in a row on one wiring
MaxCalls == 3

\* given("x"), stages [Source().to("x"), Plain("x").to("y")], output_to("y")
ChainWorkflow ==
    [inputs |-> <<UnboundVariable("x", Nothing)>>,
     stages |-> <<Stage(StageClass("Source", <<>>, <<UnboundVariable("r", Nothing)>>),
                        <<>>, NoKwargs, <<<<PyStr("x")>>, NoKwargs>>, FALSE),
                  Stage(StageClass("Plain", <<UnboundVariable("a", Nothing)>>,
                                   <<UnboundVariable("r", Nothing)>>),
                        <<PyStr("x")>>, NoKwargs, <<<<PyStr("y")>>, NoKwargs>>, FALSE)>>,
     outputs |-> <<UnboundVariable("y", Nothing)>>]

LibWorkflows == {IntegrationWorkflow, ChainWorkflow}

\* a Wiring as Wiring.wire built it (orig), and the Wiring the next call is
\* made on (w)
WiringArgs ==
    {[kind |-> "wiring", wf |-> wf, calls |-> 0,
      orig |-> Wiring_wire(wf.inputs, wf.outputs, wf.stages),
      w |-> Wiring_wire(wf.inputs, wf.outputs, wf.stages)] : wf \in LibWorkflows}

\* the Results a list passed to merge_all is made of
ListedResults ==
    {Okay(v) : v \in LibValues}
      \cup {Warn(<<w>>, v) : w \in LibWarnings, v \in LibValues}
      \cup {Fail(<<e>>, <<>>) : e \in LibErrors}

MergeAllArgs ==
    {[kind |-> "merge_all", args |-> args] :
       args \in UNION {[1..n -> ListedResults] : n \in 0..MaxArgs}}

\* most variables a VariableSet is built from, and most names in one check
MaxVars == 3

MaxNames == 2

LibVariables ==
    {BoundVariable("x", PyInt(1), Nothing), BoundVariable("x", PyInt(2), Nothing),
     UnboundVariable("x", Nothing), UnboundVariable("x", Some(PyInt(DefaultVal))),
     BoundVariable("y", PyInt(1), Nothing), UnboundVariable("y", Nothing)}

\* names asked for: "z" is never in the set
LibNames == {"x", "y", "z"}

VariableSetArgs ==
    {[kind |-> "VariableSet", vars |-> vs] :
       vs \in UNION {[1..n -> LibVariables] : n \in 0..MaxVars}}

\* the functions passed to flat_map, by what they return
LibFunctions ==
    {[tag |-> "Okay", warnings |-> <<>>, errors |-> <<>>]}
      \cup {[tag |-> "Warn", warnings |-> ws, errors |-> <<>>] :
               ws \in {<<>>} \cup {<<w>> : w \in LibWarnings}}
      \cup {[tag |-> "Fail", warnings |-> ws, errors |-> es] :
               ws \in {<<>>} \cup {<<w>> : w \in LibWarnings},
               es \in {<<>>} \cup {<<e>> : e \in LibErrors}}

\* r.flat_map(f) and r.flat_map(f).flat_map(g)
FlatMapArgs ==
    {[kind |-> "flat_map", r |-> r, f |-> f, g |-> g] :
       r \in LibResults, f \in LibFunctions, g \in LibFunctions}

\* the classes used as variable types
PyTypes == {"object", "int", "bool", "str"}

\* variables with an explicit type, with a type inferred from the value or
\* from the default, and with no type
TypedVariables ==
    {UnboundVariable_init("v", ty, Nothing) : ty \in {Nothing} \cup {Some(c) : c \in PyTypes}}
      \cup {BoundVariable("v", val, Nothing) : val \in {PyInt(1), PyBool(TRUE), PyStr("a")}}
      \cup {UnboundVariable("v", Some(PyInt(DefaultVal)))}

TypeArgs ==
    {[kind |-> "types", v1 |-> v1, v2 |-> v2, flag |-> flag] :
       v1 \in TypedVariables, v2 \in TypedVariables, flag \in BOOLEAN}

LibInputs ==
    MergeArgs \cup WiringArgs \cup MergeAllArgs \cup VariableSetArgs \cup FlatMapArgs
      \cup TypeArgs

LibInit ==
    /\ defn = IntegrationWorkflow
    /\ wiring = Nothing
    /\ pc = "make"
    /\ run_wiring = Nothing
    /\ run_result = Okay(PyNone)
    /\ dex = 0
    /\ stage_input_res = Okay(PyNone)
    /\ ret = NoRet
    /\ invoked = <<>>
    /\ resolutions = <<>>
    /\ stage_results = <<>>
    /\ final_outputs = Nothing
    /\ displayed = <<>>
    /\ lib_in \in LibInputs
    /\ lib_out = NoCall

\* merge(a, b, fn)
Call_merge ==
    /\ lib_in.kind = "merge"
    /\ \E fn \in Strategies :
         lib_out' = [fn |-> "merge", strategy |-> fn, res |-> merge(lib_in.a, lib_in.b, fn)]
    /\ UNCHANGED <<wf_vars, lib_in>>

\* a >> b
Call_rshift ==
    /\ lib_in.kind = "merge"
    /\ lib_out' = [fn |-> "rshift", strategy |-> "KEEP_LAST", res |-> rshift(lib_in.a, lib_in.b)]
    /\ UNCHANGED <<wf_vars, lib_in>>

\* a << b
Call_lshift ==
    /\ lib_in.kind = "merge"
    /\ lib_out' = [fn |-> "lshift", strategy |-> "KEEP_FIRST", res |-> lshift(lib_in.a, lib_in.b)]
    /\ UNCHANGED <<wf_vars, lib_in>>

\* w.bind_inputs(inputs), then made the receiver of the next call
Call_bind_inputs ==
    /\ lib_in.kind = "wiring"
    /\ lib_in.calls < MaxCalls
    /\ \E val \in {PyInt(InputVal), PyInt(BoundVal)} :
         LET inputs == [k \in 1..Len(lib_in.wf.inputs) |-> Variable_bind(lib_in.wf.inputs[k], val)]
         IN  /\ lib_out' = [fn |-> "bind_inputs", self_before |-> lib_in.w,
                            self_after |-> bind_inputs_self(lib_in.w, inputs),
                            res |-> bind_inputs(lib_in.w, inputs)]
             /\ lib_in' = [lib_in EXCEPT !.w = bind_inputs(lib_in.w, inputs),
                                         !.calls = @ + 1]
    /\ UNCHANGED wf_vars

\* w.bind_stage(stage_index, stage_outputs), then made the receiver of the
\* next call
Call_bind_stage ==
    /\ lib_in.kind = "wiring"
    /\ lib_in.calls < MaxCalls
    /\ \E stage_index \in 0..(Len(lib_in.wf.stages) - 1) :
         LET stage_outputs == GenericOutputs(lib_in.wf.stages[stage_index + 1]).v
         IN  /\ lib_out' = [fn |-> "bind_stage", stage_index |-> stage_index,
                            stage_outputs |-> stage_outputs, self_before |-> lib_in.w,
                            self_after |-> bind_stage_self(lib_in.w, stage_index, stage_outputs),
                            res |-> bind_stage(lib_in.w, stage_index, stage_outputs)]
             /\ lib_in' = [lib_in EXCEPT !.w = bind_stage(lib_in.w, stage_index, stage_outputs),
                                         !.calls = @ + 1]
    /\ UNCHANGED wf_vars

\* merge_all(*args, fn=fn), empty left at its default None
Call_merge_all ==
    /\ lib_in.kind = "merge_all"
    /\ \E fn \in Strategies :
         lib_out' = [fn |-> "merge_all", strategy |-> fn,
                     res |-> merge_all(lib_in.args, fn, PyNone)]
    /\ UNCHANGED <<wf_vars, lib_in>>

\* VariableSet(vars)
Call_VariableSet ==
    /\ lib_in.kind = "VariableSet"
    /\ lib_out' = [fn |-> "VariableSet", res |-> VariableSet(lib_in.vars)]
    /\ UNCHANGED <<wf_vars, lib_in>>

\* VariableSet(vars).check(*names)
Call_check ==
    /\ lib_in.kind = "VariableSet"
    /\ \E names \in UNION {[1..n -> LibNames] : n \in 0..MaxNames} :
         lib_out' = [fn |-> "check", names |-> names,
                     res |-> check(VariableSet(lib_in.vars), names)]
    /\ UNCHANGED <<wf_vars, lib_in>>

\* VariableSet(vars).check_all()
Call_check_all ==
    /\ lib_in.kind = "VariableSet"
    /\ lib_out' = [fn |-> "check_all", res |-> check_all(VariableSet(lib_in.vars))]
    /\ UNCHANGED <<wf_vars, lib_in>>

\* VariableSet(vars).get_var(name)
Call_get_var ==
    /\ lib_in.kind = "VariableSet"
    /\ \E name \in LibNames :
         lib_out' = [fn |-> "get_var", name |-> name,
                     res |-> get_var_call(VariableSet(lib_in.vars), name)]
    /\ UNCHANGED <<wf_vars, lib_in>>

\* r.flat_map(f)
Call_flat_map ==
    /\ lib_in.kind = "flat_map"
    /\ lib_out' = [fn |-> "flat_map", res |-> flat_map(lib_in.r, lib_in.f)]
    /\ UNCHANGED <<wf_vars, lib_in>>

\* r.flat_map(f).flat_map(g)
Call_flat_map_chain ==
    /\ lib_in.kind = "flat_map"
    /\ lib_out' = [fn |-> "flat_map_chain",
                   res |-> flat_map(flat_map(lib_in.r, lib_in.f), lib_in.g)]
    /\ UNCHANGED <<wf_vars, lib_in>>

\* assert_types_match(v1, v2, fail_on_explicit_mismatch)
Call_assert_types_match ==
    /\ lib_in.kind = "types"
    /\ lib_out' = [fn |-> "assert_types_match",
                   res |-> assert_types_match(lib_in.v1, lib_in.v2, lib_in.flag)]
    /\ UNCHANGED <<lib_in, wf_vars>>

LibNext ==
    \/ Call_assert_types_match
    \/ Call_flat_map
    \/ Call_flat_map_chain
    \/ Call_VariableSet
    \/ Call_check
    \/ Call_check_all
    \/ Call_get_var
    \/ Call_merge_all
    \/ Call_merge
    \/ Call_rshift
    \/ Call_lshift
    \/ Call_bind_inputs
    \/ Call_bind_stage

SpecLib == LibInit /\ [][LibNext]_vars

(***************************************************************************)
(* Construction: Stage(...).to(...) and the MakeWorkflow builder           *)
(* (exseos/workflow/Workflow.py).  One call per step; the builder calls    *)
(* are chained, each on the MakeWorkflow the previous one returned.        *)
(***************************************************************************)
\* ensure_from_name(x): type_check(x, Variable) holds for every Variable
ensure_from_name(x) == IF x.t = "str" THEN UnboundVariable(x.v, Nothing) ELSE x

ensure_from_name_arr(xs) == [k \in 1..Len(xs) |-> ensure_from_name(xs[k])]

\* _name_exists(v, vs)
name_exists(v, vs) == \E k \in 1..Len(vs) : v.name = vs[k].name

\* as _ensure_unique_names, but a later occurrence replaces an earlier one
RECURSIVE ensure_unique_names_keep_last(_)
ensure_unique_names_keep_last(vs) ==
    IF vs = <<>> THEN <<>>
    ELSE (IF name_exists(Head(vs), Tail(vs)) THEN <<>> ELSE <<Head(vs)>>)
           \o ensure_unique_names_keep_last(Tail(vs))

\* the comprehension of _ensure_unique_names from position dex on
RECURSIVE unique_from(_, _)
unique_from(vs, d) ==
    IF d > Len(vs) THEN <<>>
    ELSE (IF name_exists(vs[d], SubSeq(vs, 1, d - 1)) THEN <<>> ELSE <<vs[d]>>)
           \o unique_from(vs, d + 1)

\* _ensure_unique_names(vars): var is kept unless its name is in vars[:dex]
ensure_unique_names(vs) == unique_from(vs, 1)

\* MakeWorkflow(stages, inputs, outputs); the name and the ui are left out
MakeWorkflow(stages, inputs, outputs) ==
    [inputs |-> inputs, stages |-> stages, outputs |-> outputs]

\* given(*args, **kwargs); kwargs is the sequence of (name, default) items
given(self, args, kwargs) ==
    LET arg_vars == ensure_from_name_arr(args)
        kwarg_vars == [k \in 1..Len(kwargs) |->
                         UnboundVariable(kwargs[k][1], Some(kwargs[k][2]))]
    IN  MakeWorkflow(self.stages,
                     ensure_unique_names(kwarg_vars \o arg_vars \o self.inputs),
                     self.outputs)

\* output_to(*args)
output_to(self, args) ==
    MakeWorkflow(self.stages, self.inputs,
                 ensure_unique_names(ensure_from_name_arr(args) \o self.outputs))

\* from_stages(*args)
from_stages(self, args) == MakeWorkflow(self.stages \o args, self.inputs, self.outputs)

MaxBuilds == 3

MaxGiven == 2

\* names and Variables handed to given and output_to
BuilderArguments ==
    {PyStr("x"), PyStr("y"), BoundVariable("x", PyInt(BoundVal), Nothing)}

BuilderArgLists == UNION {[1..m -> BuilderArguments] : m \in 0..MaxGiven}

BuilderKwargs == {<<>>, <<<<"x", PyInt(DefaultVal)>>>>}

BuilderStages == {<<IntegrationWorkflow.stages[1]>>, <<IntegrationWorkflow.stages[2]>>,
                  IntegrationWorkflow.stages}

\* what a caller passes for a slot: a wire-name, a bound or an unbound Variable
SlotArguments ==
    {PyStr("a"), BoundVariable("w", PyInt(BoundVal), Nothing), UnboundVariable("u", Nothing)}

\* *args of at most n positional arguments
Positional(n) == UNION {[1..m -> SlotArguments] : m \in 0..n}

\* **kwargs over some of the given names
Keyword(names) == UNION {[D -> SlotArguments] : D \in SUBSET names}

\* RaiseToPower(*args, **kwargs).to(*to_args, **to_kwargs)
StageArgs ==
    {[kind |-> "stage", args |-> a, kwargs |-> kw, to_args |-> ta, to_kwargs |-> tkw] :
       a \in Positional(Len(RaiseToPowerClass.input_vars)),
       kw \in Keyword({RaiseToPowerClass.input_vars[k].name :
                         k \in 1..Len(RaiseToPowerClass.input_vars)}),
       ta \in Positional(Len(RaiseToPowerClass.output_vars)),
       tkw \in Keyword({RaiseToPowerClass.output_vars[k].name :
                          k \in 1..Len(RaiseToPowerClass.output_vars)})}

\* MakeWorkflow(): the empty builder
BuilderArgs == {[kind |-> "builder", calls |-> 0, mw |-> MakeWorkflow(<<>>, <<>>, <<>>)]}

BuildInputs == StageArgs \cup BuilderArgs

BuildInit ==
    /\ defn = IntegrationWorkflow
    /\ wiring = Nothing
    /\ pc = "make"
    /\ run_wiring = Nothing
    /\ run_result = Okay(PyNone)
    /\ dex = 0
    /\ stage_input_res = Okay(PyNone)
    /\ ret = NoRet
    /\ invoked = <<>>
    /\ resolutions = <<>>
    /\ stage_results = <<>>
    /\ final_outputs = Nothing
    /\ displayed = <<>>
    /\ lib_in \in BuildInputs
    /\ lib_out = NoCall

\* cls(*args, **kwargs).to(*to_args, **to_kwargs): to() copies the stage by
\* calling the constructor again with the same args and kwargs and the new _to
Call_Stage ==
    /\ lib_in.kind = "stage"
    /\ lib_out' = [fn |-> "Stage",
                   res |-> Stage(RaiseToPowerClass, lib_in.args, lib_in.kwargs,
                                 <<lib_in.to_args, lib_in.to_kwargs>>, FALSE)]
    /\ UNCHANGED <<lib_in, wf_vars>>

\* self.given(*args, **kwargs); no field of self is assigned
Call_given ==
    /\ lib_in.kind = "builder" /\ lib_in.calls < MaxBuilds
    /\ \E args \in BuilderArgLists, kwargs \in BuilderKwargs :
         /\ lib_out' = [fn |-> "given", args |-> args, kwargs |-> kwargs,
                        self_before |-> lib_in.mw, self_after |-> lib_in.mw,
                        res |-> given(lib_in.mw, args, kwargs)]
         /\ lib_in' = [lib_in EXCEPT !.calls = @ + 1, !.mw = given(lib_in.mw, args, kwargs)]
    /\ UNCHANGED wf_vars

\* self.output_to(*args)
Call_output_to ==
    /\ lib_in.kind = "builder" /\ lib_in.calls < MaxBuilds
    /\ \E args \in BuilderArgLists :
         /\ lib_out' = [fn |-> "output_to", args |-> args, kwargs |-> <<>>,
                        self_before |-> lib_in.mw, self_after |-> lib_in.mw,
                        res |-> output_to(lib_in.mw, args)]
         /\ lib_in' = [lib_in EXCEPT !.calls = @ + 1, !.mw = output_to(lib_in.mw, args)]
    /\ UNCHANGED wf_vars

\* self.from_stages(*args)
Call_from_stages ==
    /\ lib_in.kind = "builder" /\ lib_in.calls < MaxBuilds
    /\ \E args \in BuilderStages :
         /\ lib_out' = [fn |-> "from_stages", args |-> args, kwargs |-> <<>>,
                        self_before |-> lib_in.mw, self_after |-> lib_in.mw,
                        res |-> from_stages(lib_in.mw, args)]
         /\ lib_in' = [lib_in EXCEPT !.calls = @ + 1, !.mw = from_stages(lib_in.mw, args)]
    /\ UNCHANGED wf_vars

BuildNext ==
    \/ Call_Stage
    \/ Call_given
    \/ Call_output_to
    \/ Call_from_stages

SpecBuild == BuildInit /\ [][BuildNext]_vars

(***************************************************************************)
(* Run-time lookups on a Wiring: get_stage_inputs and get_outputs called   *)
(* on a Wiring after any sequence of bind_inputs and bind_stage calls.     *)
(***************************************************************************)
\* paths that are neither /inputs/<name> nor /stage(s)/<index>/<name>
MalformedPaths ==
    {<<"bogus">>, <<"/", "inputs">>, <<"/", "stages", "/", "x", "/", "y">>,
     <<"/", "inputs", "/", "x", "/", "y">>}

\* Wiring(...) as Wiring.wire built it, but with the first input wire of the
\* last stage and the first output wire linked to pth
WithLink(w, pth) ==
    LET last == IntToStr(Len(w.stages) - 1)
    IN  [w EXCEPT !.wires.stages[last][1].binding = LinkBinding(pth),
                  !.wires.outputs[1].binding = LinkBinding(pth)]

LookupArgs ==
    WiringArgs
      \cup {[kind |-> "wiring", wf |-> wf, calls |-> 0,
             orig |-> WithLink(Wiring_wire(wf.inputs, wf.outputs, wf.stages), pth),
             w |-> WithLink(Wiring_wire(wf.inputs, wf.outputs, wf.stages), pth)] :
              wf \in LibWorkflows, pth \in MalformedPaths}

WireInit ==
    /\ defn = IntegrationWorkflow
    /\ wiring = Nothing
    /\ pc = "make"
    /\ run_wiring = Nothing
    /\ run_result = Okay(PyNone)
    /\ dex = 0
    /\ stage_input_res = Okay(PyNone)
    /\ ret = NoRet
    /\ invoked = <<>>
    /\ resolutions = <<>>
    /\ stage_results = <<>>
    /\ final_outputs = Nothing
    /\ displayed = <<>>
    /\ lib_in \in LookupArgs
    /\ lib_out = NoCall

\* w.get_stage_inputs(stage_index), for the stages and for one index past them
Call_get_stage_inputs ==
    /\ lib_in.kind = "wiring"
    /\ \E stage_index \in 0..Len(lib_in.wf.stages) :
         lib_out' = [fn |-> "get_stage_inputs", stage_index |-> stage_index,
                     self_before |-> lib_in.w, self_after |-> lib_in.w,
                     res |-> get_stage_inputs(lib_in.w, stage_index)]
    /\ UNCHANGED <<wf_vars, lib_in>>

\* w.get_outputs()
Call_get_outputs ==
    /\ lib_in.kind = "wiring"
    /\ lib_out' = [fn |-> "get_outputs", stage_index |-> Len(lib_in.wf.stages),
                   self_before |-> lib_in.w, self_after |-> lib_in.w,
                   res |-> get_outputs(lib_in.w)]
    /\ UNCHANGED <<wf_vars, lib_in>>

WireNext ==
    \/ Call_bind_inputs
    \/ Call_bind_stage
    \/ Call_get_stage_inputs
    \/ Call_get_outputs

SpecWire == WireInit /\ [][WireNext]_vars

(***************************************************************************)
(* Three Results merged with >> and with <<, grouped to the left and to    *)
(* the right.                                                              *)
(***************************************************************************)
\* Results of every variant: a Warn with no warning and a Fail that carries a
\* warning included
ChainedResults ==
    ListedResults
      \cup {Warn(<<>>, v) : v \in LibValues}
      \cup {Fail(<<e>>, <<w>>) : e \in LibErrors, w \in LibWarnings}

ChainArgs ==
    {[kind |-> "chain", a |-> a, b |-> b, c |-> c] :
       a \in ChainedResults, b \in ChainedResults, c \in ChainedResults}

ChainInit ==
    /\ defn = IntegrationWorkflow
    /\ wiring = Nothing
    /\ pc = "make"
    /\ run_wiring = Nothing
    /\ run_result = Okay(PyNone)
    /\ dex = 0
    /\ stage_input_res = Okay(PyNone)
    /\ ret = NoRet
    /\ invoked = <<>>
    /\ resolutions = <<>>
    /\ stage_results = <<>>
    /\ final_outputs = Nothing
    /\ displayed = <<>>
    /\ lib_in \in ChainArgs
    /\ lib_out = NoCall

\* (a >> b) >> c and a >> (b >> c)
Call_rshift_chain ==
    /\ lib_in.kind = "chain"
    /\ lib_out' = [fn |-> "rshift_chain",
                   left |-> rshift(rshift(lib_in.a, lib_in.b), lib_in.c),
                   right |-> rshift(lib_in.a, rshift(lib_in.b, lib_in.c))]
    /\ UNCHANGED <<wf_vars, lib_in>>

\* (a << b) << c and a << (b << c)
Call_lshift_chain ==
    /\ lib_in.kind = "chain"
    /\ lib_out' = [fn |-> "lshift_chain",
                   left |-> lshift(lshift(lib_in.a, lib_in.b), lib_in.c),
                   right |-> lshift(lib_in.a, lshift(lib_in.b, lib_in.c))]
    /\ UNCHANGED <<wf_vars, lib_in>>

ChainNext ==
    \/ Call_rshift_chain
    \/ Call_lshift_chain

SpecChain == ChainInit /\ [][ChainNext]_vars

(***************************************************************************)
(* Calls of Variable.bind and of WiredVariableSet.__eq__.                  *)
(***************************************************************************)
MaxSetLen == 2

\* the variables bound: unbound and bound, with an explicit type, an
\* inferred type and no type, with and without a default
BindVariables ==
    TypedVariables
      \cup {BoundVariable_init("v", PyInt(1), Some(c), Nothing) : c \in PyTypes}
      \cup {BoundVariable("v", PyInt(1), Some(PyInt(DefaultVal))),
            BoundVariable("v", PyStr("a"), Some(PyInt(DefaultVal)))}

BindValues == {PyInt(BoundVal), PyBool(TRUE), PyStr("a"), PyList(<<>>)}

BindArgs == {[kind |-> "bind", v |-> v, x |-> x] : v \in BindVariables, x \in BindValues}

\* wired variables as in the test of WiredVariableSet: wired to a bound
\* variable, without a wire, and wired under the stage's own name
WiredPool ==
    {WiredStageVariable(Some(BoundVariable_init("wire_a", PyInt(1), Some("int"), Nothing)),
                        UnboundVariable_init("local_a", Some("int"), Some(PyInt(DefaultVal)))),
     WiredStageVariable(Nothing,
                        UnboundVariable_init("unbound_b", Some("bool"), Some(PyBool(TRUE)))),
     WiredStageVariable(Some(UnboundVariable_init("same_c", Some("str"), Some(PyStr("a")))),
                        UnboundVariable_init("same_c", Some("str"), Some(PyStr("a"))))}

WiredTuples == UNION {[1..n -> WiredPool] : n \in 0..MaxSetLen}

EqArgs == {[kind |-> "eq", a |-> a, b |-> b] : a \in WiredTuples, b \in WiredTuples}

VarInit ==
    /\ defn = IntegrationWorkflow
    /\ wiring = Nothing
    /\ pc = "make"
    /\ run_wiring = Nothing
    /\ run_result = Okay(PyNone)
    /\ dex = 0
    /\ stage_input_res = Okay(PyNone)
    /\ ret = NoRet
    /\ invoked = <<>>
    /\ resolutions = <<>>
    /\ stage_results = <<>>
    /\ final_outputs = Nothing
    /\ displayed = <<>>
    /\ lib_in \in BindArgs \cup EqArgs
    /\ lib_out = NoCall

\* v.bind(x): builds a new BoundVariable and assigns nothing in v
Call_bind ==
    /\ lib_in.kind = "bind"
    /\ lib_out' = [fn |-> "bind", self_before |-> lib_in.v, self_after |-> lib_in.v,
                   x |-> lib_in.x, res |-> Variable_bind(lib_in.v, lib_in.x)]
    /\ UNCHANGED <<wf_vars, lib_in>>

\* WiredVariableSet(a) == WiredVariableSet(b)
Call_eq ==
    /\ lib_in.kind = "eq"
    /\ lib_out' = [fn |-> "eq", a |-> lib_in.a, b |-> lib_in.b,
                   res |-> WiredVariableSet_eq(lib_in.a, lib_in.b)]
    /\ UNCHANGED <<wf_vars, lib_in>>

VarNext ==
    \/ Call_bind
    \/ Call_eq

SpecVar == VarInit /\ [][VarNext]_vars

(***************************************************************************)
(* Reading the model's state for the properties below.                     *)
(***************************************************************************)
Built == has_val(wiring)

NumStages == Len(defn.stages)

\* the slots a binding is computed for: <<i, k>> is input k of stage i
\* (0-based i), and <<NumStages, k>> is pipeline output k
Slots ==
    UNION {{<<i, k>> : k \in 1..Len(defn.stages[i + 1].input_vars)} : i \in 0..(NumStages - 1)}
      \cup {<<NumStages, k>> : k \in 1..Len(defn.outputs)}

\* the declared (local) variable of a slot and the wire variable supplied for it
SlotLocal(sl) ==
    IF sl[1] < NumStages THEN defn.stages[sl[1] + 1].inputs[sl[2]][1] ELSE defn.outputs[sl[2]]

SlotWire(sl) ==
    IF sl[1] < NumStages THEN defn.stages[sl[1] + 1].inputs[sl[2]][2]
    ELSE Some(defn.outputs[sl[2]])

SlotBound(sl) ==
    Variable_is_bound(SlotLocal(sl))
      \/ (has_val(SlotWire(sl)) /\ Variable_is_bound(SlotWire(sl)[1]))

SlotHasDefault(sl) ==
    has_val(SlotLocal(sl).default)
      \/ (has_val(SlotWire(sl)) /\ has_val(SlotWire(sl)[1].default))

\* the binding Wiring.wire computed for a slot
SlotBinding(sl) ==
    IF sl[1] < NumStages THEN wiring[1].wires.stages[IntToStr(sl[1])][sl[2]].binding
    ELSE wiring[1].wires.outputs[sl[2]].binding

\* stage j (0-based) declares an output wired to wire-name n
Produces(j, n) ==
    \E k \in 1..Len(defn.stages[j + 1].outputs) :
       /\ has_val(defn.stages[j + 1].outputs[k][2])
       /\ defn.stages[j + 1].outputs[k][2][1].name = n

Producers(n) == {j \in 0..(NumStages - 1) : Produces(j, n)}

GlobalInput(n) == \E k \in 1..Len(defn.inputs) : defn.inputs[k].name = n

\* what a link path names: the stage index and wire-name, or a global input
LinkTarget(link) ==
    LET segs == Split(link).v
    IN  IF Len(segs) = 4
        THEN [kind |-> segs[2], index |-> StrToInt(segs[3]), name |-> segs[4]]
        ELSE [kind |-> segs[2], index |-> -1, name |-> segs[3]]

IsLink(sl) == SlotBinding(sl).t = "LinkBinding"

\* a slot that is not already bound and has a wire-name
Searching(sl) == ~SlotBound(sl) /\ has_val(SlotWire(sl))

\* C1: an unbound slot of stage i (or pipeline output) with wire-name n is
\* linked to the first match of the search stage i-1, ..., stage 0, global
\* inputs: to the upstream producer of n with the greatest index below i if
\* there is one, and otherwise to the global input n if there is one.
C1_MostRecentProducerWins ==
    Built =>
      \A sl \in Slots :
        Searching(sl) =>
          LET n == SlotWire(sl)[1].name
              up == {j \in Producers(n) : j < sl[1]}
          IN  /\ up # {} =>
                   /\ IsLink(sl)
                   /\ LinkTarget(SlotBinding(sl).link).kind = "stage"
                   /\ LinkTarget(SlotBinding(sl).link).index = Max(up)
                   /\ LinkTarget(SlotBinding(sl).link).name = n
              /\ (up = {} /\ GlobalInput(n)) =>
                   /\ IsLink(sl)
                   /\ LinkTarget(SlotBinding(sl).link).kind = "inputs"
                   /\ LinkTarget(SlotBinding(sl).link).name = n

\* a slot with two upstream producers of its wire-name and a global input of
\* that name, linked to the later producer
C1_Witness ==
    /\ Built
    /\ \E sl \in Slots :
         /\ Searching(sl)
         /\ Cardinality({j \in Producers(SlotWire(sl)[1].name) : j < sl[1]}) >= 2
         /\ GlobalInput(SlotWire(sl)[1].name)
         /\ IsLink(sl)
         /\ LinkTarget(SlotBinding(sl).link).index = sl[1] - 1

\* C2: a LinkBinding of an input slot of stage i names a global input or a
\* stage of index below i; a wire-name produced only by stage i itself or by
\* later stages (and by no global input) never gives a LinkBinding.
C2_NoForwardReference ==
    Built =>
      \A sl \in Slots :
        sl[1] < NumStages =>
          /\ IsLink(sl) =>
               \/ LinkTarget(SlotBinding(sl).link).kind = "inputs"
               \/ /\ LinkTarget(SlotBinding(sl).link).kind = "stage"
                  /\ LinkTarget(SlotBinding(sl).link).index >= 0
                  /\ LinkTarget(SlotBinding(sl).link).index < sl[1]
          /\ (/\ has_val(SlotWire(sl))
              /\ ~GlobalInput(SlotWire(sl)[1].name)
              /\ \A j \in Producers(SlotWire(sl)[1].name) : j >= sl[1]) => ~IsLink(sl)

\* an input slot whose wire-name is produced by its own stage and by an
\* earlier one: it is linked to the earlier one
C2_Witness ==
    /\ Built
    /\ \E sl \in Slots :
         /\ sl[1] < NumStages /\ sl[1] > 0
         /\ has_val(SlotWire(sl))
         /\ Produces(sl[1], SlotWire(sl)[1].name)
         /\ Produces(sl[1] - 1, SlotWire(sl)[1].name)
         /\ IsLink(sl)
         /\ LinkTarget(SlotBinding(sl).link).index = sl[1] - 1

\* the binding the priority rule gives a slot
ExpectedBinding(sl) ==
    IF SlotBound(sl) THEN "SelfBinding"
    ELSE IF /\ has_val(SlotWire(sl))
            /\ \/ \E j \in Producers(SlotWire(sl)[1].name) : j < sl[1]
               \/ GlobalInput(SlotWire(sl)[1].name)
    THEN "LinkBinding"
    ELSE IF SlotHasDefault(sl) THEN "DefaultBinding"
    ELSE "NoBinding"

\* C3: every stage-input slot and every pipeline output gets exactly one
\* binding: SelfBinding if bound, else LinkBinding if it has a wire-name with
\* an upstream producer or global input, else DefaultBinding if it has a
\* default, else NoBinding.
C3_BindingPriority ==
    Built =>
      /\ \A i \in 0..(NumStages - 1) :
           Len(wiring[1].wires.stages[IntToStr(i)]) = Len(defn.stages[i + 1].input_vars)
      /\ Len(wiring[1].wires.outputs) = Len(defn.outputs)
      /\ \A sl \in Slots : SlotBinding(sl).t = ExpectedBinding(sl)

\* a slot with a default and a matching upstream producer gets LinkBinding,
\* and another slot, unbound, unmatched and without default, gets NoBinding
C3_Witness ==
    /\ Built
    /\ \E sl \in Slots :
         /\ ~SlotBound(sl) /\ SlotHasDefault(sl)
         /\ has_val(SlotWire(sl))
         /\ \E j \in Producers(SlotWire(sl)[1].name) : j < sl[1]
         /\ IsLink(sl)
    /\ \E sl \in Slots :
         /\ ~SlotBound(sl) /\ ~SlotHasDefault(sl)
         /\ SlotBinding(sl).t = "NoBinding"

(***************************************************************************)
(* Reading one Workflow.run.                                               *)
(***************************************************************************)
RunOver == pc \in {"returned", "raised"}

NonFail(r) == r.tag \in {"Okay", "Warn"}

Range(seq) == {seq[k] : k \in 1..Len(seq)}

\* the value bound upstream under the wire-name a link names: the value the
\* producing stage's run bound to that output, or the value of the global input
UpstreamValue(target) ==
    IF target.kind = "inputs"
    THEN RunInputs[CHOOSE k \in 1..Len(RunInputs) : RunInputs[k].name = target.name].bval[1]
    ELSE LET outs == defn.stages[target.index + 1].outputs
             m == Min({k \in 1..Len(outs) :
                         has_val(outs[k][2]) /\ outs[k][2][1].name = target.name})
         IN  stage_results[target.index + 1].val.v[m].bval[1]

\* a Result r holds a VariableSet with one variable per declared variable of
\* decl, in order, named names[k], and with the upstream value where slot
\* <<i, k>> is link-bound
ResolvedAs(r, i, names) ==
    /\ NonFail(r)
    /\ r.val.t = "VariableSet"
    /\ Len(r.val.vars) = Len(names)
    /\ \A k \in 1..Len(names) :
         /\ r.val.vars[k].name = names[k]
         /\ IsLink(<<i, k>>) =>
              r.val.vars[k].bval = Some(UpstreamValue(LinkTarget(SlotBinding(<<i, k>>).link)))

\* C4: with the global inputs bound and stages 0..i-1 bound in index order,
\* get_stage_inputs(i) is a non-Fail Result holding one variable per declared
\* input of stage i, under the local name and with the local default, and a
\* link-bound input carries the value bound upstream.
C4_StageInputsResolved ==
    \A i \in 1..Len(resolutions) :
      /\ ResolvedAs(resolutions[i], i - 1,
                    [k \in 1..Len(defn.stages[i].input_vars) |-> defn.stages[i].input_vars[k].name])
      /\ \A k \in 1..Len(defn.stages[i].input_vars) :
           resolutions[i].val.vars[k].default = defn.stages[i].input_vars[k].default

\* C5: with every stage bound in index order, get_outputs() is a non-Fail
\* Result holding one variable per declared pipeline output, under its
\* wire-name and bound to the value of the most recent producer.
C5_OutputsResolved ==
    has_val(final_outputs) =>
      ResolvedAs(final_outputs[1], NumStages,
                 [k \in 1..Len(defn.outputs) |-> defn.outputs[k].name])

\* C6: the workflow [MakeBase -> x_wire; RaiseToPower(x_wire, to_pow) ->
\* res_wire] run with to_pow = 2 returns Okay of the VariableSet holding
\* exactly res_wire = 5041.
C6_IntegrationResult ==
    (defn = IntegrationWorkflow /\ RunOver) =>
      /\ pc = "returned"
      /\ ret.tag = "Okay"
      /\ ret.val = VariableSet(<<BoundVariable("res_wire", PyInt(5041), Nothing)>>)

\* every error of errs is among the errors of r
Carries(r, errs) == \A e \in Range(errs) : e \in Range(r.errors)

\* what the step that failed left behind: n stages invoked, nothing after it
HaltedAfter(n, errs) ==
    /\ pc \in {"display", "returned"}
    /\ Len(invoked) = n
    /\ final_outputs = Nothing
    /\ is_fail(ret)
    /\ Carries(ret, errs)

\* C7: when the input resolution of stage i yields Fail, stage i and every
\* later stage are never invoked; when stage i returns Fail or raises, no
\* later stage is invoked; in both cases run returns a Fail carrying the
\* failure's errors.
C7_FailureHalts ==
    /\ invoked = [k \in 1..Len(invoked) |-> k - 1]
    /\ \A i \in 1..Len(resolutions) :
         is_fail(resolutions[i]) =>
           /\ i = Len(resolutions)
           /\ Len(stage_results) = i - 1
           /\ HaltedAfter(i - 1, resolutions[i].errors)
    /\ \A i \in 1..Len(stage_results) :
         (is_fail(stage_results[i]) \/ is_raise(stage_results[i])) =>
           /\ i = Len(stage_results)
           /\ Len(resolutions) = i
           /\ HaltedAfter(i, IF is_raise(stage_results[i]) THEN <<stage_results[i].exc>>
                             ELSE stage_results[i].errors)

\* the run of a two-stage workflow has returned after the input resolution
\* of stage 1 failed: stage 0 was invoked, stage 1 was not
C7_Witness ==
    /\ pc = "returned"
    /\ NumStages = 2
    /\ Len(resolutions) = 2
    /\ is_fail(resolutions[2])
    /\ invoked = <<0>>
    /\ is_fail(ret)

\* C8: when every input resolution and every stage Result is Okay or Warn,
\* every stage is invoked exactly once and run returns a non-Fail Result,
\* which is a Warn if some step gave a Warn.
C8_NoFailureRunsAll ==
    (/\ RunOver
     /\ \A i \in 1..Len(resolutions) : NonFail(resolutions[i])
     /\ \A i \in 1..Len(stage_results) : NonFail(stage_results[i])) =>
      /\ pc = "returned"
      /\ invoked = [k \in 1..NumStages |-> k - 1]
      /\ NonFail(ret)
      /\ (\E i \in 1..Len(stage_results) : is_warn(stage_results[i])) => is_warn(ret)

\* an input slot that is unbound, has no default, and has no wire-name or no
\* upstream producer or global input for it
Unresolvable(sl) ==
    /\ sl[1] < NumStages
    /\ ~SlotBound(sl)
    /\ ~SlotHasDefault(sl)
    /\ \/ ~has_val(SlotWire(sl))
       \/ /\ ~GlobalInput(SlotWire(sl)[1].name)
          /\ \A j \in Producers(SlotWire(sl)[1].name) : j >= sl[1]

\* C9: such a slot gets NoBinding, and a run that reaches its stage returns a
\* Fail whose errors contain an UnboundVariableError, no later stage being
\* invoked.
C9_UnboundInputFails ==
    \A sl \in Slots :
      Unresolvable(sl) =>
        /\ Built => SlotBinding(sl).t = "NoBinding"
        /\ (RunOver /\ Len(resolutions) > sl[1]) =>
             /\ pc = "returned"
             /\ is_fail(ret)
             /\ \E e \in Range(ret.errors) : e.cls = "UnboundVariableError"
             /\ \A j \in Range(invoked) : j <= sl[1]

\* C10: run ends by returning a Result, never by raising, and an exception
\* raised by a stage is among the errors of the returned Fail.
C10_NoExceptionEscapes ==
    /\ pc # "raised"
    /\ pc = "returned" =>
         /\ ret.tag \in {"Okay", "Warn", "Fail"}
         /\ \A i \in 1..Len(stage_results) :
              is_raise(stage_results[i]) =>
                (is_fail(ret) /\ stage_results[i].exc \in Range(ret.errors))

\* the stage outputs recorded in the wiring a run holds
Recorded == IF has_val(run_wiring) THEN run_wiring[1].bound_intermediate_outputs ELSE <<>>

Merged == lib_out.fn \in {"merge", "rshift", "lshift"}

Severity(r) == CASE r.tag = "Okay" -> 0 [] r.tag = "Warn" -> 1 [] r.tag = "Fail" -> 2

\* the warnings and errors a Result contributes to a merge
WarningsOf(r) == IF is_okay(r) THEN <<>> ELSE r.warnings

ErrorsOf(r) == IF is_fail(r) THEN r.errors ELSE <<>>

\* C13: merge(a, b, fn) is Fail iff a or b is Fail, Warn iff neither is Fail
\* and one is Warn, Okay iff both are Okay; its value is fn of the two values
\* when neither is Fail, and it holds no value otherwise.
C13_MergeSeverity ==
    Merged =>
      LET a == lib_in.a
          b == lib_in.b
          r == lib_out.res
      IN  /\ Severity(r) = Max({Severity(a), Severity(b)})
          /\ is_fail(r) <=> (is_fail(a) \/ is_fail(b))
          /\ is_warn(r) <=> (~is_fail(a) /\ ~is_fail(b) /\ (is_warn(a) \/ is_warn(b)))
          /\ is_okay(r) <=> (is_okay(a) /\ is_okay(b))
          /\ ~is_fail(r) => r.val = MergeStrategy(lib_out.strategy, a.val, b.val)
          /\ is_fail(r) => r.val = NoVal

\* a Warn merged with an Okay under APPEND: a Warn holding both values
C13_Witness ==
    /\ lib_out.fn = "merge"
    /\ lib_out.strategy = "APPEND"
    /\ is_warn(lib_in.a) /\ is_okay(lib_in.b)
    /\ is_warn(lib_out.res)
    /\ lib_out.res.val = PyList(<<lib_in.a.val, lib_in.b.val>>)

\* C14: the warnings of merge(a, b, fn), a >> b and a << b are a's warnings
\* followed by b's, and the errors are a's errors followed by b's, an Okay
\* contributing nothing.
C14_MergeDiagnostics ==
    Merged =>
      /\ lib_out.res.warnings = WarningsOf(lib_in.a) \o WarningsOf(lib_in.b)
      /\ lib_out.res.errors = ErrorsOf(lib_in.a) \o ErrorsOf(lib_in.b)

\* a Warn with two warnings shifted into a Fail with warnings and errors of
\* its own
C14_Witness ==
    /\ lib_out.fn = "rshift"
    /\ is_warn(lib_in.a) /\ Len(lib_in.a.warnings) = 2
    /\ is_fail(lib_in.b) /\ Len(lib_in.b.warnings) = 1 /\ Len(lib_in.b.errors) = 2
    /\ lib_in.a.warnings[1] # lib_in.a.warnings[2]
    /\ Len(lib_out.res.warnings) = 3

Rebound == lib_out.fn \in {"bind_inputs", "bind_stage"}

\* C12: after any sequence of bind_inputs and bind_stage calls, the Wiring a
\* call was made on is as it was before the call, and the wires, stage
\* shapes, global shapes and status of the Wiring returned are those that
\* Wiring.wire built.
C12_BindingIsPure ==
    Rebound =>
      /\ lib_out.self_after = lib_out.self_before
      /\ lib_out.res.wires = lib_in.orig.wires
      /\ lib_out.res.stages = lib_in.orig.stages
      /\ lib_out.res.inputs = lib_in.orig.inputs
      /\ lib_out.res.outputs = lib_in.orig.outputs
      /\ lib_out.res.status = lib_in.orig.status
      /\ lib_in.orig = Wiring_wire(lib_in.wf.inputs, lib_in.wf.outputs, lib_in.wf.stages)

\* a third call, bind_stage, on a wiring that holds bound inputs and one
\* recorded stage: the wiring returned holds two recorded stages, the one it
\* was called on still one
C12_Witness ==
    /\ lib_out.fn = "bind_stage"
    /\ lib_in.calls = 3
    /\ has_val(lib_out.self_before.bound_inputs)
    /\ Len(lib_out.self_before.bound_intermediate_outputs) = 1
    /\ Len(lib_out.self_after.bound_intermediate_outputs) = 1
    /\ Len(lib_out.res.bound_intermediate_outputs) = 2

\* the warnings of a list of Results, in the order of the list
RECURSIVE AllWarnings(_)
AllWarnings(rs) == IF rs = <<>> THEN <<>> ELSE WarningsOf(Head(rs)) \o AllWarnings(Tail(rs))

\* C15: for a non-empty list of non-Fail Results, merge_all without an
\* explicit empty gives the first value under KEEP_FIRST, the last value
\* under KEEP_LAST and the list of all values in order under APPEND, with
\* the warnings of all arguments in order.
C15_MergeAllValues ==
    (/\ lib_out.fn = "merge_all"
     /\ Len(lib_in.args) > 0
     /\ \A k \in 1..Len(lib_in.args) : NonFail(lib_in.args[k])) =>
      LET rs == lib_in.args
          r == lib_out.res
      IN  /\ NonFail(r)
          /\ r.warnings = AllWarnings(rs)
          /\ lib_out.strategy = "KEEP_FIRST" => r.val = rs[1].val
          /\ lib_out.strategy = "KEEP_LAST" => r.val = rs[Len(rs)].val
          /\ lib_out.strategy = "APPEND" => r.val = PyList([k \in 1..Len(rs) |-> rs[k].val])

\* the positions of the variables named n in the list a VariableSet is built from
Named(n) == {k \in 1..Len(lib_in.vars) : lib_in.vars[k].name = n}

\* C17: building a VariableSet from a list with a repeated name gives a set
\* whose status is a Warn with an AmbiguousVariableError naming it and
\* listing the variables of that name; get_var of a name gives the value of
\* the name's first occurrence in the list.
C17_DuplicateNames ==
    /\ lib_out.fn = "VariableSet" =>
         /\ ~is_fail(lib_out.res.status)
         /\ \A n \in LibNames :
              Cardinality(Named(n)) > 1 =>
                /\ is_warn(lib_out.res.status)
                /\ \E w \in Range(lib_out.res.status.warnings) :
                     /\ w.cls = "AmbiguousVariableError"
                     /\ w.info.name = n
                     /\ w.info.candidates = SelectSeq(lib_in.vars, LAMBDA v : v.name = n)
    /\ (/\ lib_out.fn = "get_var"
        /\ Named(lib_out.name) # {}
        /\ has_val(Variable_val(lib_in.vars[Min(Named(lib_out.name))]))) =>
         lib_out.res = Return(Variable_val(lib_in.vars[Min(Named(lib_out.name))])[1])

\* what check_one is to give for a name
Missing(n) == Named(n) = {}

Valueless(n) == ~Missing(n) /\ ~has_val(Variable_val(lib_in.vars[Max(Named(n))]))

\* the errors expected of a check of names, in the order of the names
RECURSIVE ExpectedErrors(_)
ExpectedErrors(names) ==
    IF names = <<>> THEN <<>>
    ELSE (IF Missing(Head(names)) THEN <<Exc("AttributeError", Head(names))>>
          ELSE IF Valueless(Head(names)) THEN <<Exc("UnboundVariableError", Head(names))>>
          ELSE <<>>) \o ExpectedErrors(Tail(names))

\* the names of the set, in the order of its dictionary
RECURSIVE Keys(_, _)
Keys(vs, seen) ==
    IF vs = <<>> THEN <<>>
    ELSE IF Head(vs).name \in seen THEN Keys(Tail(vs), seen)
    ELSE <<Head(vs).name>> \o Keys(Tail(vs), seen \cup {Head(vs).name})

\* C18: check(names) is Okay(None) iff every name is in the set with a value;
\* otherwise it is a Fail with one error per offending name, in argument
\* order: AttributeError for a name not in the set, UnboundVariableError for
\* one without value. check_all() is check of every name of the set.
C18_CheckReportsEach ==
    /\ lib_out.fn = "check" =>
         /\ ExpectedErrors(lib_out.names) = <<>> => lib_out.res = Okay(PyNone)
         /\ ExpectedErrors(lib_out.names) # <<>> =>
              lib_out.res = Fail(ExpectedErrors(lib_out.names), <<>>)
    /\ lib_out.fn = "check_all" =>
         /\ lib_out.res = check(VariableSet(lib_in.vars), Keys(lib_in.vars, {}))
         /\ ExpectedErrors(Keys(lib_in.vars, {})) = <<>> => lib_out.res = Okay(PyNone)
         /\ ExpectedErrors(Keys(lib_in.vars, {})) # <<>> =>
              lib_out.res = Fail(ExpectedErrors(Keys(lib_in.vars, {})), <<>>)

\* a check of a name that is not in the set and then of one that is there
\* without a value: a Fail with the two errors, in that order
C18_Witness ==
    /\ lib_out.fn = "check"
    /\ Len(lib_out.names) = 2
    /\ Missing(lib_out.names[1])
    /\ Valueless(lib_out.names[2])
    /\ is_fail(lib_out.res)
    /\ Len(lib_out.res.errors) = 2
    /\ lib_out.res.errors[1].cls = "AttributeError"
    /\ lib_out.res.errors[2].cls = "UnboundVariableError"

\* what r.flat_map(f) is to be: r itself when r is Fail; otherwise the worse
\* of r and f(r.val), with f's value, r's warnings then f's, and f's errors
FlatMapped(r, f) ==
    IF is_fail(r) THEN r
    ELSE LET fr == Apply(f, r.val)
         IN  [tag |-> IF is_fail(fr) THEN "Fail"
                      ELSE IF is_warn(r) \/ is_warn(fr) THEN "Warn" ELSE "Okay",
              val |-> IF is_fail(fr) THEN NoVal ELSE fr.val,
              warnings |-> WarningsOf(r) \o WarningsOf(fr),
              errors |-> ErrorsOf(fr)]

\* C16: r.flat_map(f) is r when r is Fail, f taking no part; otherwise it is
\* r >> f(r.val). In a chain of two flat_maps a failure of the first step is
\* the result, whatever the second function returns.
C16_FlatMap ==
    /\ lib_out.fn = "flat_map" =>
         /\ lib_out.res = FlatMapped(lib_in.r, lib_in.f)
         /\ ~is_fail(lib_in.r) =>
              lib_out.res = merge(lib_in.r, Apply(lib_in.f, lib_in.r.val), "KEEP_LAST")
    /\ lib_out.fn = "flat_map_chain" =>
         /\ lib_out.res = FlatMapped(FlatMapped(lib_in.r, lib_in.f), lib_in.g)
         /\ is_fail(FlatMapped(lib_in.r, lib_in.f)) =>
              lib_out.res = FlatMapped(lib_in.r, lib_in.f)

\* a chain from a Warn whose first function fails and whose second function
\* would fail with other errors: only the first failure is in the result
C16_Witness ==
    /\ lib_out.fn = "flat_map_chain"
    /\ is_warn(lib_in.r) /\ Len(lib_in.r.warnings) > 0
    /\ lib_in.f.tag = "Fail" /\ Len(lib_in.f.errors) = 1
    /\ lib_in.g.tag = "Fail" /\ Len(lib_in.g.errors) = 1
    /\ lib_in.g.errors # lib_in.f.errors
    /\ lib_out.res.errors = lib_in.f.errors
    /\ lib_out.res.warnings = lib_in.r.warnings \o lib_in.f.warnings

\* C19: assert_types_match(v1, v2, flag) is Okay(None) when either variable
\* has no type or v2's type is a subtype of v1's, a bool not counting as an
\* int; otherwise it is Warn([InferredTypeMismatchWarning], None) when one of
\* the types is inferred, Fail([ExplicitTypeMismatchError]) when both are
\* explicit and the flag is set, and Warn([ExplicitTypeMismatchError], None)
\* when both are explicit and the flag is clear. A v1 whose type is a strict
\* subtype of v2's type never matches.
Typeless == lib_in.v1.var_type = Nothing \/ lib_in.v2.var_type = Nothing

StrictSubtype(a, b) == a # b /\ (b = "object" \/ (a = "bool" /\ b = "int"))

Compatible ==
    LET t1 == lib_in.v1.var_type[1]
        t2 == lib_in.v2.var_type[1]
    IN  t2 = t1 \/ (StrictSubtype(t2, t1) /\ ~(t2 = "bool" /\ t1 = "int"))

Mismatch(cls) == <<Exc(cls, <<lib_in.v1, lib_in.v2>>)>>

C19_TypesMatch ==
    lib_out.fn = "assert_types_match" =>
      /\ (Typeless \/ Compatible) => lib_out.res = Okay(PyNone)
      /\ (~Typeless /\ ~Compatible) =>
            /\ (lib_in.v1.inferred \/ lib_in.v2.inferred) =>
                  lib_out.res = Warn(Mismatch("InferredTypeMismatchWarning"), PyNone)
            /\ (~lib_in.v1.inferred /\ ~lib_in.v2.inferred /\ lib_in.flag) =>
                  lib_out.res = Fail(Mismatch("ExplicitTypeMismatchError"), <<>>)
            /\ (~lib_in.v1.inferred /\ ~lib_in.v2.inferred /\ ~lib_in.flag) =>
                  lib_out.res = Warn(Mismatch("ExplicitTypeMismatchError"), PyNone)
      /\ (~Typeless /\ StrictSubtype(lib_in.v1.var_type[1], lib_in.v2.var_type[1])) =>
            ~is_okay(lib_out.res)

\* an explicit bool checked against an explicit object with the flag set:
\* bool is a strict subtype of object, and the call fails
C19_Witness ==
    /\ lib_out.fn = "assert_types_match"
    /\ lib_in.v1.var_type = Some("bool") /\ ~lib_in.v1.inferred
    /\ lib_in.v2.var_type = Some("object") /\ ~lib_in.v2.inferred
    /\ lib_in.flag
    /\ is_fail(lib_out.res)

\* C20: in every WiredStageVariable of the pipeline's Wiring, as built by
\* Wiring.wire and as rebound during the run, a wire variable whose type is
\* inferred or absent, paired with a local variable of explicit type, has the
\* local variable's type; and the local variable of a stage output is the one
\* the stage declares.
PairedVariables(w) ==
    Range(w.inputs) \cup Range(w.outputs)
      \cup UNION {Range(w.stages[i]) : i \in 1..Len(w.stages)}
      \cup UNION {{wr.var : wr \in Range(w.wires.stages[key])} : key \in DOMAIN w.wires.stages}
      \cup {wr.var : wr \in Range(w.wires.outputs)}
      \cup UNION {Range(io) : io \in Range(w.bound_inputs)}
      \cup UNION {Range(io) : io \in Range(w.bound_intermediate_outputs)}

ExplicitType(v) == v.var_type # Nothing /\ ~v.inferred

C20_WireInheritsType ==
    \A w \in Range(wiring) \cup Range(run_wiring) :
      /\ \A v \in PairedVariables(w) :
            (/\ has_wire(v)
             /\ ~ExplicitType(v.wire_var[1])
             /\ ExplicitType(v.local_var)) =>
               v.wire_var[1].var_type = v.local_var.var_type
      /\ \A i \in 1..Len(w.stages) : \A k \in 1..Len(w.stages[i]) :
            w.stages[i][k].local_var = defn.stages[i].output_vars[k]

\* C21: a constructed Stage binds declared slot k to the k-th positional
\* argument if one was given, otherwise to the keyword argument under the
\* slot's declared name, otherwise to Nothing; a string argument becomes an
\* unbound wire variable of that name and a Variable argument is bound as
\* Some(that Variable).  The same holds for the outputs rebound by to().
AsWireVariable(a) == IF a.t = "str" THEN Some(UnboundVariable(a.v, Nothing)) ELSE Some(a)

SlotArgument(k, declared, args, kwargs) ==
    IF k <= Len(args) THEN AsWireVariable(args[k])
    ELSE IF declared.name \in DOMAIN kwargs THEN AsWireVariable(kwargs[declared.name])
    ELSE Nothing

C21_SlotBinding ==
    lib_out.fn = "Stage" =>
      /\ Len(lib_out.res.inputs) = Len(RaiseToPowerClass.input_vars)
      /\ Len(lib_out.res.outputs) = Len(RaiseToPowerClass.output_vars)
      /\ \A k \in 1..Len(lib_out.res.inputs) :
           lib_out.res.inputs[k] =
             <<RaiseToPowerClass.input_vars[k],
               SlotArgument(k, RaiseToPowerClass.input_vars[k], lib_in.args, lib_in.kwargs)>>
      /\ \A k \in 1..Len(lib_out.res.outputs) :
           lib_out.res.outputs[k] =
             <<RaiseToPowerClass.output_vars[k],
               SlotArgument(k, RaiseToPowerClass.output_vars[k],
                            lib_in.to_args, lib_in.to_kwargs)>>

\* C22: after any sequence of given, output_to and from_stages calls on an
\* empty MakeWorkflow, no two inputs and no two outputs of the builder share
\* a name; a name supplied again by a later call is held by the later call's
\* variable; inputs and outputs of other names are preserved; from_stages
\* appends the new stages after the existing ones in order; and the builder
\* the method was called on is unchanged.
NoDuplicateNames(vs) == \A i, j \in 1..Len(vs) : vs[i].name = vs[j].name => i = j

NamesOf(vs) == {vs[k].name : k \in 1..Len(vs)}

\* the variables a given or output_to call supplies
Supplied ==
    {IF lib_out.args[k].t = "str" THEN UnboundVariable(lib_out.args[k].v, Nothing)
     ELSE lib_out.args[k] : k \in 1..Len(lib_out.args)}
      \cup {UnboundVariable(lib_out.kwargs[k][1], Some(lib_out.kwargs[k][2])) :
              k \in 1..Len(lib_out.kwargs)}

\* old is the builder's list before the call and new the list after it
LaterCallWins(old, new) ==
    /\ NoDuplicateNames(new)
    /\ NamesOf(new) = NamesOf(old) \cup {v.name : v \in Supplied}
    /\ \A v \in Range(new) : v.name \in {s.name : s \in Supplied} => v \in Supplied
    /\ \A v \in Range(old) : v.name \notin {s.name : s \in Supplied} => v \in Range(new)

C22_BuilderNames ==
    /\ lib_in.kind = "builder" =>
         NoDuplicateNames(lib_in.mw.inputs) /\ NoDuplicateNames(lib_in.mw.outputs)
    /\ lib_out.fn \in {"given", "output_to", "from_stages"} =>
         lib_out.self_after = lib_out.self_before
    /\ lib_out.fn = "given" =>
         /\ LaterCallWins(lib_out.self_before.inputs, lib_out.res.inputs)
         /\ lib_out.res.outputs = lib_out.self_before.outputs
         /\ lib_out.res.stages = lib_out.self_before.stages
    /\ lib_out.fn = "output_to" =>
         /\ LaterCallWins(lib_out.self_before.outputs, lib_out.res.outputs)
         /\ lib_out.res.inputs = lib_out.self_before.inputs
         /\ lib_out.res.stages = lib_out.self_before.stages
    /\ lib_out.fn = "from_stages" =>
         /\ lib_out.res.stages = lib_out.self_before.stages \o lib_out.args
         /\ lib_out.res.inputs = lib_out.self_before.inputs
         /\ lib_out.res.outputs = lib_out.self_before.outputs

\* given("x") on a builder that holds a bound x and a y: the new unbound x
\* replaces the bound one and y stays
C22_Witness ==
    /\ lib_out.fn = "given"
    /\ lib_out.args = <<PyStr("x")>> /\ lib_out.kwargs = <<>>
    /\ BoundVariable("x", PyInt(BoundVal), Nothing) \in Range(lib_out.self_before.inputs)
    /\ UnboundVariable("y", Nothing) \in Range(lib_out.self_before.inputs)
    /\ UnboundVariable("x", Nothing) \in Range(lib_out.res.inputs)
    /\ UnboundVariable("y", Nothing) \in Range(lib_out.res.inputs)
    /\ Len(lib_out.res.inputs) = 2

\* C23: every LinkBinding path that Wiring.wire produces is /inputs/<name> or
\* /stages/<index>/<name>, with <name> the slot's wire-name and <index> the
\* index of the producing stage, and the run-time lookup does not reject it
\* as malformed.
\* the cases in which _lookup_wire_path fails without consulting what is
\* bound: the wildcard case of "match segs" and the two length tests
RejectedAsMalformed(pth) ==
    LET segs == Split(pth)
    IN  \/ ~PyEq(segs, PyStr("inputs")) /\ ~PyEq(segs, PyStr("stages"))
        \/ PyEq(segs, PyStr("inputs")) /\ Len(segs.v) # 2
        \/ PyEq(segs, PyStr("stages")) /\ Len(segs.v) # 3

C23_LinkPathForms ==
    Built =>
      \A sl \in Slots :
        IsLink(sl) =>
          LET n == SlotWire(sl)[1].name
              pth == SlotBinding(sl).link
          IN  /\ \/ pth = <<"/", "inputs", "/", n>> /\ GlobalInput(n)
                 \/ \E j \in Producers(n) :
                      j < sl[1] /\ pth = <<"/", "stages", "/", IntToStr(j), "/", n>>
              /\ ~RejectedAsMalformed(pth)

\* C24: when get_stage_inputs(i) or get_outputs resolves a LinkBinding whose
\* path is malformed, or names global inputs that bind_inputs has not bound,
\* or names a stage that bind_stage has not recorded, the call returns a Fail
\* whose errors contain a LookupError for that path; it does not raise, and
\* the Wiring is unchanged.
\* the wires the call resolves
ResolvedWires ==
    IF lib_out.fn = "get_outputs" THEN lib_out.self_before.wires.outputs
    ELSE IF IntToStr(lib_out.stage_index) \in DOMAIN lib_out.self_before.wires.stages
    THEN lib_out.self_before.wires.stages[IntToStr(lib_out.stage_index)]
    ELSE <<>>

NamesInputs(pth) == Len(pth) = 4 /\ SubSeq(pth, 1, 3) = <<"/", "inputs", "/">>

NamesStage(pth) ==
    /\ Len(pth) = 6
    /\ pth[1] = "/" /\ pth[2] \in {"stage", "stages"} /\ pth[3] = "/" /\ pth[5] = "/"
    /\ IsDigitStr(pth[4])

CannotBeLookedUp(w, pth) ==
    \/ ~NamesInputs(pth) /\ ~NamesStage(pth)
    \/ NamesInputs(pth) /\ ~has_val(w.bound_inputs)
    \/ NamesStage(pth) /\ Len(w.bound_intermediate_outputs) <= StrToInt(pth[4])

C24_FailedLookup ==
    lib_out.fn \in {"get_stage_inputs", "get_outputs"} =>
      /\ lib_out.self_after = lib_out.self_before
      /\ \A k \in 1..Len(ResolvedWires) :
           (/\ ResolvedWires[k].binding.t = "LinkBinding"
            /\ CannotBeLookedUp(lib_out.self_before, ResolvedWires[k].binding.link)) =>
              /\ is_fail(lib_out.res)
              /\ Exc("LookupError", ResolvedWires[k].binding.link) \in Range(lib_out.res.errors)

\* get_stage_inputs(1) on a Wiring whose inputs are bound but whose stage 0
\* has not been recorded, the input of stage 1 being linked to stage 0
C24_Witness ==
    /\ lib_out.fn = "get_stage_inputs" /\ lib_out.stage_index = 1
    /\ has_val(lib_out.self_before.bound_inputs)
    /\ lib_out.self_before.bound_intermediate_outputs = <<>>
    /\ \E k \in 1..Len(ResolvedWires) :
         /\ ResolvedWires[k].binding.t = "LinkBinding"
         /\ NamesStage(ResolvedWires[k].binding.link)
    /\ is_fail(lib_out.res)

\* C25: Workflow.run calls the UI's display exactly once in every run that
\* returns Fail and never in a run that returns Okay or Warn, and the message
\* displayed carries the Fail Result that run returns.
C25_DisplayOnFailure ==
    pc = "returned" =>
      /\ is_fail(ret) => Len(displayed) = 1 /\ displayed[1] = ret
      /\ ~is_fail(ret) => displayed = <<>>

\* C26: >> and << are associative: for all Results a, b, c the groupings
\* (a >> b) >> c and a >> (b >> c) give the same variant, the same value when
\* there is one, and the same errors and warnings in the same order; and the
\* same for <<.
C26_MergeAssociative ==
    lib_out.fn \in {"rshift_chain", "lshift_chain"} =>
      /\ lib_out.left.tag = lib_out.right.tag
      /\ ~is_fail(lib_out.left) => lib_out.left.val = lib_out.right.val
      /\ ErrorsOf(lib_out.left) = ErrorsOf(lib_out.right)
      /\ WarningsOf(lib_out.left) = WarningsOf(lib_out.right)

\* a Warn, then an Okay, then a Warn with another warning and another value
C26_Witness ==
    /\ lib_out.fn = "rshift_chain"
    /\ is_warn(lib_in.a) /\ is_okay(lib_in.b) /\ is_warn(lib_in.c)
    /\ Len(lib_in.a.warnings) = 1 /\ Len(lib_in.c.warnings) = 1
    /\ lib_in.a.warnings # lib_in.c.warnings
    /\ lib_in.a.val # lib_in.c.val
    /\ lib_out.left = Warn(lib_in.a.warnings \o lib_in.c.warnings, lib_in.c.val)

\* C27: after any sequence of bind_stage calls on a Wiring, in index order or
\* not, with indices skipped or repeated, the outputs recorded for stage
\* index k (the entry a link to stage k consults) are stage k's output shape
\* bound with the values passed to bind_stage(k, .).
\* io is the output shape of stage k (0-based) with every variable bound to
\* the value of the like-named variable of outs
ShapeBoundWith(w, k, io, outs) ==
    /\ Len(io) = Len(w.stages[k + 1])
    /\ \A m \in 1..Len(io) :
         /\ wire_name(io[m]) = wire_name(w.stages[k + 1][m])
         /\ local_name(io[m]) = local_name(w.stages[k + 1][m])
         /\ \A j \in 1..Len(outs) :
              outs[j].name = local_name(io[m]) => io[m].local_var.bval = outs[j].bval

C27_RecordedByIndex ==
    lib_out.fn = "bind_stage" =>
      /\ Len(lib_out.res.bound_intermediate_outputs) > lib_out.stage_index
      /\ ShapeBoundWith(lib_out.res, lib_out.stage_index,
                        lib_out.res.bound_intermediate_outputs[lib_out.stage_index + 1],
                        lib_out.stage_outputs)

\* C28: in a run in which every stage was resolved and returned Okay or Warn,
\* the warnings of the Result that run returns are, in stage order, the
\* warnings of each input resolution followed by those of the stage's Result,
\* then those of the output resolution, every warning of a stage once.
RECURSIVE WarningsUpTo(_)
WarningsUpTo(k) ==
    IF k = 0 THEN <<>>
    ELSE WarningsUpTo(k - 1) \o WarningsOf(resolutions[k]) \o WarningsOf(stage_results[k])

C28_WarningsOnce ==
    (/\ pc = "returned"
     /\ NumStages > 0
     /\ Len(stage_results) = NumStages
     /\ \A k \in 1..NumStages :
          /\ ~is_raise(resolutions[k]) /\ ~is_fail(resolutions[k])
          /\ ~is_raise(stage_results[k]) /\ ~is_fail(stage_results[k])
     /\ has_val(final_outputs)) =>
       WarningsOf(ret) = WarningsUpTo(NumStages) \o WarningsOf(final_outputs[1])

\* C29: v.bind(x), for a bound or unbound v, returns a BoundVariable holding x
\* with the name, default and var_type of v and the same inferred flag as v,
\* and leaves v as it was.
C29_BindPreserves ==
    lib_out.fn = "bind" =>
      /\ lib_out.res.t = "BoundVariable"
      /\ lib_out.res.bval = Some(lib_out.x)
      /\ lib_out.res.name = lib_out.self_before.name
      /\ lib_out.res.default = lib_out.self_before.default
      /\ lib_out.res.var_type = lib_out.self_before.var_type
      /\ lib_out.res.inferred = lib_out.self_before.inferred
      /\ lib_out.self_after = lib_out.self_before

\* C30: two WiredVariableSets compare equal exactly when they hold the same
\* number of WiredStageVariables and those at each position are equal; a set
\* is never equal to a strict prefix of itself.
SameAtEachPosition(a, b) ==
    /\ Len(a) = Len(b)
    /\ \A k \in 1..Len(a) : WiredStageVariable_eq(a[k], b[k])

C30_SetEquality ==
    lib_out.fn = "eq" => (lib_out.res <=> SameAtEachPosition(lib_out.a, lib_out.b))

====
